---- MODULE Spec2Model ----
(***************************************************************************)
(* LemonDB: a document store that keeps named tables of id-keyed records   *)
(* in one JSON file.  The model follows lemondb/database.py (LemonDB),     *)
(* lemondb/storage.py (LemonStorage), lemondb/middleware/json.py           *)
(* (JsonMiddleware), lemondb/utils.py (typenize / untypenize) and          *)
(* lemondb/plugin/lemon.py (LemonPlugin).                                  *)
(*                                                                         *)
(* Python values are encoded uniformly so that TLC can compare them:       *)
(*   field value  [isRec, isSet, isList, n, f, t]                          *)
(*                                  an int n, a nested dict with fields f, *)
(*                                  the set {1, 2} (a value of a type that *)
(*                                  the type table does not have), or a    *)
(*                                  list t of tags as a "$type" holds      *)
(*   manifest     sequence of [nested, tag, sub]: a tag, or the manifest   *)
(*                                  sub of a nested dict                   *)
(*   fields       sequence of [k, v] in dict (insertion) order             *)
(*   entry        [f, typed, t]     a dict with fields f and, when typed,  *)
(*                                  the key "$type" holding manifest t     *)
(*   row          [isInt, k, e]     one (key, entry) item of a table dict; *)
(*                                  k is the key's characters, isInt tells *)
(*                                  a Python int key from a str key        *)
(*   top entry    [name, list, rows] one item of the file's root dict      *)
(*   text         sequence of code points: a str, and the text of a file   *)
(*                                                                         *)
(* loguru is an optional extra (setup.py) and is taken to be absent, so    *)
(* catch_exceptions returns the method as it is and an exception reaches   *)
(* the caller.                                                             *)
(***************************************************************************)
EXTENDS Integers, Sequences, FiniteSets, TLC

\* ------------------------------------------------------------------ bounds
\* Inserts that reach the file write, per behaviour.
MaxInserts == 2
\* Records of the sequence an insert_many is given.
MaxMany == 2
\* Cursors a caller holds at a time.
MaxCursors == 3
\* Elements of a list after add_query_result added to it.
MaxItems == 2
\* Rows of the populated database a behaviour may start from.
PreRows == 11

\* --------------------------------------------------------------- constants
DefaultTable == "_table"
OtherTable == "t2"
VersionKey == "__version__"
version == <<1, 0, 0>>
MainFile == "db.json"

\* The names of tables, fields and tags, and the characters (code points) of
\* each.  The ids of the rows are names too: migrate makes fields of them.
KnownNames ==
    {"_table", "t2", "__version__", "$type", "int", "a", "b", "x",
     "0", "1", "2", "3", "4", "5", "6", "7", "8", "9", "10"}
Chars(name) ==
    CASE name = "_table" -> <<95, 116, 97, 98, 108, 101>>
      [] name = "t2" -> <<116, 50>>
      [] name = "__version__" -> <<95, 95, 118, 101, 114, 115, 105, 111, 110, 95, 95>>
      [] name = "$type" -> <<36, 116, 121, 112, 101>>
      [] name = "int" -> <<105, 110, 116>>
      [] name = "a" -> <<97>>
      [] name = "b" -> <<98>>
      [] name = "x" -> <<120>>
      [] name = "0" -> <<48>>
      [] name = "1" -> <<49>>
      [] name = "2" -> <<50>>
      [] name = "3" -> <<51>>
      [] name = "4" -> <<52>>
      [] name = "5" -> <<53>>
      [] name = "6" -> <<54>>
      [] name = "7" -> <<55>>
      [] name = "8" -> <<56>>
      [] name = "9" -> <<57>>
      [] name = "10" -> <<49, 48>>
      [] OTHER -> <<>>

\* ------------------------------------------------------------ Python basics

\* str(n) for an int: its decimal digits, after "-" when it is negative.
RECURSIVE str(_)
str(n) ==
    IF n < 0 THEN <<45>> \o str(-n)
    ELSE IF n < 10 THEN <<48 + n>>
    ELSE str(n \div 10) \o <<48 + (n % 10)>>

\* s.strip() as int(s) does it: the white space among the code points below
\* 256 is dropped at both ends.
RECURSIVE strip(_)
strip(s) ==
    LET Space == {9, 10, 11, 12, 13, 32, 133, 160}
    IN IF Len(s) > 0 /\ s[1] \in Space THEN strip(Tail(s))
       ELSE IF Len(s) > 0 /\ s[Len(s)] \in Space THEN strip(SubSeq(s, 1, Len(s) - 1))
       ELSE s

\* int(s) returns: s is, between white space, an optional sign and decimal
\* digits with single underscores between them; any other str raises
\* ValueError.
IsInt(s) ==
    LET Digits(d) ==
            /\ Len(d) > 0
            /\ d[1] \in 48..57
            /\ d[Len(d)] \in 48..57
            /\ \A i \in 2..Len(d) : d[i] \in 48..57 \/ (d[i] = 95 /\ d[i - 1] # 95)
        Signed(t) == Digits(IF Len(t) > 0 /\ t[1] \in {43, 45} THEN Tail(t) ELSE t)
    IN Signed(strip(s))

\* The value of decimal digits, underscores left out.
RECURSIVE DigitsValue(_)
DigitsValue(d) ==
    IF Len(d) = 0 THEN 0
    ELSE IF d[Len(d)] = 95 THEN DigitsValue(SubSeq(d, 1, Len(d) - 1))
    ELSE 10 * DigitsValue(SubSeq(d, 1, Len(d) - 1)) + (d[Len(d)] - 48)

\* int(s) for a str that IsInt.
int(s) ==
    LET Signed(t) ==
            IF Len(t) > 0 /\ t[1] = 45 THEN 0 - DigitsValue(Tail(t))
            ELSE IF Len(t) > 0 /\ t[1] = 43 THEN DigitsValue(Tail(t))
            ELSE DigitsValue(t)
    IN Signed(strip(s))

\* a < b for two str: code point by code point, a proper prefix is smaller.
RECURSIVE StrLess(_, _)
StrLess(a, b) ==
    IF Len(b) = 0 THEN FALSE
    ELSE IF Len(a) = 0 THEN TRUE
    ELSE IF Head(a) # Head(b) THEN Head(a) < Head(b)
    ELSE StrLess(Tail(a), Tail(b))

\* max(list) over str keys: the first of the largest.
max(keys) ==
    keys[CHOOSE i \in 1..Len(keys) :
             /\ \A j \in 1..Len(keys) : ~StrLess(keys[i], keys[j])
             /\ \A j \in 1..(i - 1) : StrLess(keys[j], keys[i])]

\* ------------------------------------------------------------------ values
IntV(n) ==
    [isRec |-> FALSE, isSet |-> FALSE, isList |-> FALSE, n |-> n, f |-> <<>>, t |-> <<>>]
RecV(fs) ==
    [isRec |-> TRUE, isSet |-> FALSE, isList |-> FALSE, n |-> 0, f |-> fs, t |-> <<>>]
SetV ==
    [isRec |-> FALSE, isSet |-> TRUE, isList |-> FALSE, n |-> 0, f |-> <<>>, t |-> <<>>]
\* isinstance(v, int)
IsIntV(v) == ~v.isRec /\ ~v.isSet /\ ~v.isList
Fld(k, v) == [k |-> k, v |-> v]
Scalar(tag) == [nested |-> FALSE, tag |-> tag, sub |-> <<>>]
Nested(sub) == [nested |-> TRUE, tag |-> "", sub |-> sub]
Entry(f, typed, t) == [f |-> f, typed |-> typed, t |-> t]
Plain(f) == Entry(f, FALSE, <<>>)
Row(isInt, k, e) == [isInt |-> isInt, k |-> k, e |-> e]
Keys(rows) == [i \in 1..Len(rows) |-> rows[i].k]

\* The tag the type table gives an int.
IntTag == "int"

\* ------------------------------------------------------------------- dicts
\* dict.update for table dicts: a present key keeps its place and takes the
\* last value other has for it, a new key is appended where other has it
\* first, with the last value other has for it.
DictUpdate(rows, other) ==
    LET Same(r, o) == r.isInt = o.isInt /\ r.k = o.k
        Last(r) ==
            other[CHOOSE j \in 1..Len(other) :
                      /\ Same(r, other[j])
                      /\ \A h \in (j + 1)..Len(other) : ~Same(r, other[h])]
        Added(new) ==
            [n \in 1..Cardinality(new) |->
                Last(other[CHOOSE j \in new : Cardinality({h \in new : h <= j}) = n])]
    IN [i \in 1..Len(rows) |->
           IF \E j \in 1..Len(other) : Same(rows[i], other[j]) THEN Last(rows[i])
           ELSE rows[i]]
       \o Added({j \in 1..Len(other) :
                    /\ \A i \in 1..Len(rows) : ~Same(rows[i], other[j])
                    /\ \A h \in 1..(j - 1) : ~Same(other[h], other[j])})

\* Index of a name in the root dict, 0 when absent.
TopIndex(data, name) ==
    LET hits == {i \in 1..Len(data) : data[i].name = name}
    IN IF hits = {} THEN 0 ELSE CHOOSE i \in hits : TRUE

\* dict.update for the root dict.
TopUpdate(data, other) ==
    LET Same(r, o) == r.name = o.name
        Last(r) ==
            other[CHOOSE j \in 1..Len(other) :
                      /\ Same(r, other[j])
                      /\ \A h \in (j + 1)..Len(other) : ~Same(r, other[h])]
        Added(new) ==
            [n \in 1..Cardinality(new) |->
                Last(other[CHOOSE j \in new : Cardinality({h \in new : h <= j}) = n])]
    IN [i \in 1..Len(data) |->
           IF \E j \in 1..Len(other) : Same(data[i], other[j]) THEN Last(data[i])
           ELSE data[i]]
       \o Added({j \in 1..Len(other) :
                    /\ \A i \in 1..Len(data) : ~Same(data[i], other[j])
                    /\ \A h \in 1..(j - 1) : ~Same(other[h], other[j])})

\* dict.update on the fields of a record.
FieldsUpdate(fields, other) ==
    LET Same(r, o) == r.k = o.k
        Last(r) ==
            other[CHOOSE j \in 1..Len(other) :
                      /\ Same(r, other[j])
                      /\ \A h \in (j + 1)..Len(other) : ~Same(r, other[h])]
        Added(new) ==
            [n \in 1..Cardinality(new) |->
                Last(other[CHOOSE j \in new : Cardinality({h \in new : h <= j}) = n])]
    IN [i \in 1..Len(fields) |->
           IF \E j \in 1..Len(other) : Same(fields[i], other[j]) THEN Last(fields[i])
           ELSE fields[i]]
       \o Added({j \in 1..Len(other) :
                    /\ \A i \in 1..Len(fields) : ~Same(fields[i], other[j])
                    /\ \A h \in 1..(j - 1) : ~Same(other[h], other[j])})

\* ------------------------------------------------------------------- codec
\* The loop of _typenize over the items of a dict: l is the manifest so far,
\* ll the nested manifest of the last nested dict met (it is not reset between
\* items).  A value whose type has a tag adds the tag; any other value adds ll
\* when ll is not empty, and nothing when it is.  The manifest of a nested
\* dict is what _typenize gives for it.  The "$type" of a dict that has one
\* is its last item, and its list is such a value without a tag.
RECURSIVE TypenizeLoop(_, _, _, _, _)
TypenizeLoop(fields, typed, i, l, ll) ==
    IF i > Len(fields)
    THEN IF typed /\ Len(ll) > 0 THEN Append(l, Nested(ll)) ELSE l
    ELSE LET Step(v, ll2) ==
                 TypenizeLoop(fields, typed, i + 1,
                              IF IsIntV(v) THEN Append(l, Scalar(IntTag))
                              ELSE IF Len(ll2) > 0 THEN Append(l, Nested(ll2))
                              ELSE l,
                              ll2)
         IN Step(fields[i].v,
                 IF fields[i].v.isRec THEN TypenizeLoop(fields[i].v.f, FALSE, 1, <<>>, <<>>)
                 ELSE ll)

\* _typenize(data) on a dict with fields e.f and, when e.typed, a "$type".
_typenize(e) == TypenizeLoop(e.f, e.typed, 1, <<>>, <<>>)

\* typenize(data): the dict gains "$type", or has the "$type" it had replaced
\* (in place: the caller's dict too).
typenize(e) == Entry(e.f, TRUE, _typenize(e))

\* A nested dict v that untypenize gave the list sub as its "$type".
Typed(v, sub) ==
    LET Other(fld) == fld.k # "$type"
    IN Entry(SelectSeq(v.f, Other), TRUE, sub)

\* The error untypenize(data) raises, "" when it returns: zip pairs the
\* fields with the tags in order, as many as there are of both.  A list tag
\* with a dict is the "$type" of that dict, which is untypenized in turn; a
\* list tag with a value that is no dict fails in t[i], the tag of int with a
\* value that is no int in int(v).
RECURSIVE UntypenizeErr(_)
UntypenizeErr(e) ==
    IF ~e.typed THEN "KeyError"
    ELSE LET n == IF Len(e.f) < Len(e.t) THEN Len(e.f) ELSE Len(e.t)
             Fails(v, i) ==
                 IF i.nested THEN ~v.isRec \/ UntypenizeErr(Typed(v, i.sub)) # ""
                 ELSE ~IsIntV(v)
         IN IF \E i \in 1..n : Fails(e.f[i].v, e.t[i]) THEN "TypeError" ELSE ""

\* untypenize(data) when it returns: "$type" is popped, of the dict and of
\* the nested dicts that were given one; ints stay ints.
RECURSIVE untypenize(_)
untypenize(e) ==
    Plain([i \in 1..Len(e.f) |->
              IF i <= Len(e.t) /\ e.t[i].nested /\ e.f[i].v.isRec
              THEN Fld(e.f[i].k, RecV(untypenize(Typed(e.f[i].v, e.t[i].sub)).f))
              ELSE e.f[i]])

\* ---------------------------------------------------------------- JSON text
\* json.dumps: the text of a value, with ", " between items and ": " between a
\* key and its value.
RECURSIVE JoinText(_)
JoinText(parts) ==
    IF Len(parts) = 0 THEN <<>>
    ELSE IF Len(parts) = 1 THEN parts[1]
    ELSE JoinText(SubSeq(parts, 1, Len(parts) \div 2)) \o <<44, 32>>
         \o JoinText(SubSeq(parts, Len(parts) \div 2 + 1, Len(parts)))
ObjectText(parts) == <<123>> \o JoinText(parts) \o <<125>>
ArrayText(parts) == <<91>> \o JoinText(parts) \o <<93>>
PairText(key, val) == <<34>> \o key \o <<34, 58, 32>> \o val

\* The text of a list of tags, a str between quotes (code point 34 in JSON,
\* 39 in repr).
RECURSIVE ManifestText(_, _)
ManifestText(t, quote) ==
    ArrayText([i \in 1..Len(t) |->
        IF t[i].nested THEN ManifestText(t[i].sub, quote)
        ELSE <<quote>> \o Chars(t[i].tag) \o <<quote>>])

\* The text of a field value.  The encoder has no text for a set and raises
\* TypeError where it would be: code point 0 marks the place.
RECURSIVE ValueText(_)
ValueText(v) ==
    IF v.isRec
    THEN ObjectText([i \in 1..Len(v.f) |-> PairText(Chars(v.f[i].k), ValueText(v.f[i].v))])
    ELSE IF v.isSet THEN <<0>>
    ELSE IF v.isList THEN ManifestText(v.t, 34)
    ELSE str(v.n)

EntryText(e) ==
    ObjectText([i \in 1..Len(e.f) |-> PairText(Chars(e.f[i].k), ValueText(e.f[i].v))]
               \o (IF e.typed THEN <<PairText(Chars("$type"), ManifestText(e.t, 34))>>
                   ELSE <<>>))

TableText(rows) ==
    ObjectText([i \in 1..Len(rows) |-> PairText(rows[i].k, EntryText(rows[i].e))])

\* json.dumps(data) of a root dict.
DumpText(data) ==
    ObjectText([i \in 1..Len(data) |->
        PairText(Chars(data[i].name),
                 IF data[i].list THEN ArrayText([j \in 1..Len(version) |-> str(version[j])])
                 ELSE TableText(data[i].rows))])

\* What json.load gives back for a dumped table: every key a str, a repeated
\* key at its first place with its last value.
LoadRows(rows) ==
    DictUpdate(<<>>, [i \in 1..Len(rows) |-> Row(FALSE, rows[i].k, rows[i].e)])
LoadDump(data) ==
    [i \in 1..Len(data) |->
        IF data[i].list THEN data[i] ELSE [data[i] EXCEPT !.rows = LoadRows(data[i].rows)]]

\* Root-dict items.
VersionEntry == [name |-> VersionKey, list |-> TRUE, rows |-> <<>>]
TableEntry(name, rows) == [name |-> name, list |-> FALSE, rows |-> rows]

\* What a call gives: the error it raises ("" when it returns) and its value.
Ok(val) == [err |-> "", val |-> val]
Raise(err) == [err |-> err, val |-> <<>>]

\* ---------------------------------------------------------------- json.load
\* A token of a JSON text: a punctuation mark (c is its code point), a string
\* (c = 34, s its characters), a number (c = 48, n its value), or c = 0 where
\* no token of the documents of this model starts.
Token(c, s, n) == [c |-> c, s |-> s, n |-> n]

\* The first place from j on whose code point is in set, Len(text) + 1 when
\* there is none.
Scan(text, j, set) ==
    CHOOSE n \in j..(Len(text) + 1) :
        /\ n > Len(text) \/ text[n] \in set
        /\ \A h \in j..(n - 1) : text[h] \notin set

\* The tokens s.toks read up to place s.next, and the next token of the text
\* with them: white space is skipped, a string ends at the next quote and
\* holds no control character, a number is 0 or digits that start with none,
\* after a minus sign or not.
\* Where no token starts, the token with c = 0 ends the text.
NextToken(text, s) ==
    LET Then(tok, j) == [toks |-> Append(s.toks, tok), next |-> j]
        None == Then(Token(0, <<>>, 0), Len(text) + 1)
        String(i, j) ==
            IF j > Len(text) \/ \E h \in (i + 1)..(j - 1) : text[h] < 32 THEN None
            ELSE Then(Token(34, SubSeq(text, i + 1, j - 1), 0), j + 1)
        Number(i, d, j) ==
            Then(Token(48, <<>>, (IF d > i THEN -1 ELSE 1) * DigitsValue(SubSeq(text, d, j - 1))),
                 j)
        Digits(i, d) ==
            IF d > Len(text) THEN None
            ELSE IF text[d] = 48 THEN Then(Token(48, <<>>, 0), d + 1)
            ELSE IF text[d] \in 49..57
                 THEN Number(i, d, Scan(text, d + 1, (0..255) \ (48..57)))
            ELSE None
        From(i) ==
            IF i > Len(text) THEN [toks |-> s.toks, next |-> i]
            ELSE IF text[i] \in {123, 125, 91, 93, 58, 44} THEN Then(Token(text[i], <<>>, 0), i + 1)
            ELSE IF text[i] = 34 THEN String(i, Scan(text, i + 1, {34}))
            ELSE Digits(i, IF text[i] = 45 THEN i + 1 ELSE i)
    IN From(Scan(text, s.next, (0..255) \ {9, 10, 13, 32}))

\* The tokens of text: s with the tokens from s.next on, n of them at most
\* (a text has no more tokens than code points).
RECURSIVE Tokens(_, _, _)
Tokens(text, s, n) ==
    IF s.next > Len(text) \/ n = 0 THEN s
    ELSE IF n = 1 THEN NextToken(text, s)
    ELSE Tokens(text, Tokens(text, s, n \div 2), n - n \div 2)

\* The token at place p; none after the last.
At(toks, p) == IF p <= Len(toks) THEN toks[p] ELSE Token(0, <<>>, 0)

\* The name whose characters these are.
NameOf(chars) ==
    IF \E n \in KnownNames : Chars(n) = chars
    THEN CHOOSE n \in KnownNames : Chars(n) = chars
    ELSE ""

\* The dict with (key, val) put into it as dict.update does, for a dict whose
\* values are of the given kind.
Put(kind, acc, key, val) ==
    CASE kind = "entry" ->
            TopUpdate(acc, <<[name |-> NameOf(key), list |-> val.list, rows |-> val.rows]>>)
      [] kind = "record" -> DictUpdate(acc, <<Row(FALSE, key, val)>>)
      [] kind = "field" ->
            IF NameOf(key) = "$type" /\ val.isList THEN Entry(acc.f, TRUE, val.t)
            ELSE Entry(FieldsUpdate(acc.f, <<Fld(NameOf(key), val)>>), acc.typed, acc.t)
      [] kind = "value" -> FieldsUpdate(acc, <<Fld(NameOf(key), val)>>)

\* One step of the decoder on the tokens of a text.  s is how far it has
\* got: the place s.p, the dicts and lists it is inside of (s.open, the
\* innermost last: the kind of each, whether it is a list, its members so far
\* and, of a dict, the key whose value comes next), and, when s.have, the
\* value s.val that ended at s.p.  The documents of this model have a value
\* of a given kind at every place: "root" the root dict; "entry" a value of
\* the root dict, the version list or a table; "record" a record; "field" a
\* value of a record, an int, a nested dict or a list of tags; "value" a
\* value of a nested dict, the same; "int" an int of the version list; "type"
\* a tag or a list of tags.  Without a value the
\* step reads the scalar at s.p, or enters the dict or list that opens there
\* (an empty one is a value at once); with one, it puts the value into the
\* innermost dict or list and reads the comma or the closing bracket after
\* it, which makes that dict or list the value; a value inside of nothing ends
\* the decoding (more is FALSE), and so does what is no JSON (ok is FALSE).
Decode(toks, s) ==
    LET Fail == [s EXCEPT !.ok = FALSE, !.more = FALSE]
        Have(val, p) == [s EXCEPT !.have = TRUE, !.val = val, !.p = p]
        \* the kind of the members of a dict or list
        Of(kind, list) ==
            CASE kind = "root" -> "entry"
              [] kind = "entry" -> IF list THEN "int" ELSE "record"
              [] kind = "record" -> "field"
              [] kind \in {"field", "value"} -> IF list THEN "type" ELSE "value"
              [] OTHER -> "type"
        \* the value a complete dict or list is
        Made(kind, list, val, p) ==
            CASE kind = "entry" /\ list ->
                    IF val = version THEN Have([list |-> TRUE, rows |-> <<>>], p) ELSE Fail
              [] kind = "entry" /\ ~list -> Have([list |-> FALSE, rows |-> val], p)
              [] kind \in {"field", "value"} /\ ~list -> Have(RecV(val), p)
              [] kind \in {"field", "value"} /\ list ->
                    Have([IntV(0) EXCEPT !.isList = TRUE, !.t = val], p)
              [] kind = "type" -> Have(Nested(val), p)
              [] OTHER -> Have(val, p)
        \* inside a dict or list, before its next member, at place p
        Inside(open, list, p) ==
            IF list THEN [s EXCEPT !.have = FALSE, !.open = open, !.p = p]
            ELSE IF At(toks, p).c = 34 /\ At(toks, p + 1).c = 58
                 THEN [s EXCEPT !.have = FALSE, !.p = p + 2,
                                !.open = [open EXCEPT ![Len(open)].key = At(toks, p).s]]
            ELSE Fail
        Enter(kind, list, none) ==
            IF At(toks, s.p + 1).c = At(toks, s.p).c + 2 THEN Made(kind, list, none, s.p + 2)
            ELSE Inside(Append(s.open, [kind |-> kind, list |-> list, val |-> none, key |-> <<>>]),
                        list, s.p + 1)
        Read(kind, t) ==
            CASE \/ t.c = 123 /\ kind \in {"root", "entry", "record", "field", "value"}
                 \/ t.c = 91 /\ kind \in {"entry", "field", "value", "type"} ->
                    Enter(kind, t.c = 91, IF kind = "record" THEN Plain(<<>>) ELSE <<>>)
              [] t.c = 48 /\ kind \in {"field", "value"} -> Have(IntV(t.n), s.p + 1)
              [] t.c = 48 /\ kind = "int" -> Have(t.n, s.p + 1)
              [] t.c = 34 /\ kind = "type" -> Have(Scalar(NameOf(t.s)), s.p + 1)
              [] OTHER -> Fail
        After(in, val, t) ==
            IF t.c = 44
            THEN Inside([s.open EXCEPT ![Len(s.open)].val = val], in.list, s.p + 1)
            ELSE IF t.c = (IF in.list THEN 93 ELSE 125)
                 THEN [Made(in.kind, in.list, val, s.p + 1)
                          EXCEPT !.open = SubSeq(s.open, 1, Len(s.open) - 1)]
            ELSE Fail
        Add(in) ==
            After(in,
                  IF in.list THEN Append(in.val, s.val)
                  ELSE Put(Of(in.kind, FALSE), in.val, in.key, s.val),
                  At(toks, s.p))
    IN IF ~s.have
       THEN Read(IF Len(s.open) = 0 THEN "root"
                 ELSE Of(s.open[Len(s.open)].kind, s.open[Len(s.open)].list),
                 At(toks, s.p))
       ELSE IF Len(s.open) = 0 THEN [s EXCEPT !.more = FALSE]
       ELSE Add(s.open[Len(s.open)])

\* The decoder's steps from s on until the decoding ends, n of them at most
\* (a step that does not end it reads a token).
RECURSIVE Decoding(_, _, _)
Decoding(toks, s, n) ==
    IF ~s.more \/ n = 0 THEN s
    ELSE IF n = 1 THEN Decode(toks, s)
    ELSE Decoding(toks, Decoding(toks, s, n \div 2), n - n \div 2)

\* json.load of a text: the root dict, or JSONDecodeError when the text is no
\* JSON document or one with text after it.
json_load(text) ==
    LET Whole(toks, r) ==
            IF r.ok /\ ~r.more /\ r.p = Len(toks) + 1 THEN Ok(r.val)
            ELSE Raise("JSONDecodeError")
        Load(toks) ==
            IF Len(toks) = 0 THEN Raise("JSONDecodeError")
            ELSE Whole(toks, Decoding(toks, [ok |-> TRUE, more |-> TRUE, have |-> FALSE, p |-> 1,
                                            val |-> <<>>, open |-> <<>>],
                                     Len(toks) + 1))
    IN Load(Tokens(text, [toks |-> <<>>, next |-> 1], Len(text)).toks)

\* ------------------------------------------------------------------- files
\* A file: whether it exists, its text, the root dict json.load gives for the
\* text, and whether the text is no JSON document (corrupt).
NoFile == [exists |-> FALSE, data |-> <<>>, text |-> <<>>, corrupt |-> FALSE]
\* The file json.dump(data) leaves when it writes a new text.
FileOf(data) ==
    [exists |-> TRUE, data |-> LoadDump(data), text |-> DumpText(data), corrupt |-> FALSE]
\* The file with the given text.
FileWith(text) ==
    LET Loaded(r) ==
            [exists |-> TRUE, data |-> r.val, text |-> text, corrupt |-> r.err # ""]
    IN Loaded(json_load(text))

\* LemonPlugin._init_db: open(path, 'w') and dump the version and one empty
\* table.
_init_db(table_name) == FileOf(<<VersionEntry, TableEntry(table_name, <<>>)>>)

\* open as it would be if every mode truncated the file.
Opened_truncating(f, mode) ==
    [exists |-> TRUE, data |-> <<>>, text |-> <<>>, corrupt |-> TRUE]

\* open(path, mode) on a file that exists: 'w' truncates it to an empty text,
\* which is no JSON document; 'r+' leaves the text as it is.
Opened(f, mode) ==
    IF mode = "w" THEN [exists |-> TRUE, data |-> <<>>, text |-> <<>>, corrupt |-> TRUE]
    ELSE f

\* JsonMiddleware.read: open(path, 'r+') and json.load.
JsonMiddleware_read(f) ==
    LET Load(o) == IF o.corrupt THEN Raise("JSONDecodeError") ELSE Ok(o.data)
    IN IF ~f.exists THEN Raise("FileNotFoundError") ELSE Load(Opened(f, "r+"))

\* The file a call leaves that reads it and writes nothing.
ReadOnly(f) == IF f.exists THEN Opened(f, "r+") ELSE f

\* The text after new was written over old from its start: what is left of a
\* longer old text trails it.
Over(new, old) ==
    IF Len(new) < Len(old) THEN new \o SubSeq(old, Len(new) + 1, Len(old)) ELSE new

\* What open(path, mode) and json.dump leave: the new text, and after it what
\* is left of a longer text.  json.load takes white space after a document
\* and nothing else, so what is left makes the whole no JSON document unless
\* it is all white space.
Dumped(f, data, mode) ==
    LET Left(new, old) ==
            IF Len(new.text) < Len(old.text)
            THEN [new EXCEPT !.text = Over(new.text, old.text),
                             !.corrupt = \E i \in (Len(new.text) + 1)..Len(old.text) :
                                             old.text[i] \notin {9, 10, 13, 32}]
            ELSE new
    IN Left(FileOf(data), Opened(f, mode))

\* A root dict that json cannot dump: a record of it holds a set, at any
\* depth.
RECURSIVE HasSet(_)
HasSet(fields) ==
    \E i \in 1..Len(fields) :
        fields[i].v.isSet \/ (fields[i].v.isRec /\ HasSet(fields[i].v.f))
Undumpable(data) ==
    \E i \in 1..Len(data) : \E j \in 1..Len(data[i].rows) : HasSet(data[i].rows[j].e.f)

\* The text json.dump writes before it raises on the first set: all that comes
\* before the set's place, the key and ": " included.
DumpPrefix(data) ==
    LET Upto(text, marks) ==
            SubSeq(text, 1, (CHOOSE i \in marks : \A j \in marks : i <= j) - 1)
        Cut(text) == Upto(text, {i \in 1..Len(text) : text[i] = 0})
    IN Cut(DumpText(data))

\* What open(path, mode) and a json.dump that raises leave: the start of the
\* new text over the opened one.  Over a longer text the whole can be a JSON
\* document again, when the old text goes on with a field value at the place
\* where the new one stops.
DumpFailed(f, data, mode) == FileWith(Over(DumpPrefix(data), Opened(f, mode).text))

\* JsonMiddleware.write: read the file, update the root dict with item, dump.
\* val is the file afterwards, also when the dump raises TypeError.
JsonMiddleware_write(f, item, mode) ==
    LET Dump(data) ==
            IF Undumpable(data) THEN [err |-> "TypeError", val |-> DumpFailed(f, data, mode)]
            ELSE Ok(Dumped(f, data, mode))
        Write(r) ==
            IF ~f.exists THEN Raise("FileNotFoundError")
            ELSE IF r.err # "" THEN r
            ELSE Dump(TopUpdate(r.val, item))
    IN Write(JsonMiddleware_read(f))

\* The first error untypenize raises over the rows of the tables of data, in
\* file order; "" when there is none.
FirstErr(errs) ==
    IF \A i \in 1..Len(errs) : errs[i] = "" THEN ""
    ELSE errs[CHOOSE i \in 1..Len(errs) : errs[i] # "" /\ \A j \in 1..(i - 1) : errs[j] = ""]

DataErr(data) ==
    LET RowsErr(rows) == FirstErr([i \in 1..Len(rows) |-> UntypenizeErr(rows[i].e)])
    IN FirstErr([i \in 1..Len(data) |-> IF data[i].list THEN "" ELSE RowsErr(data[i].rows)])

UntypenizeRows(rows) ==
    [i \in 1..Len(rows) |-> Row(rows[i].isInt, rows[i].k, untypenize(rows[i].e))]

\* LemonStorage.read: the root dict, every row of every table untypenized
\* unless _untypenize is False; the version list is skipped.
LemonStorage_read(f, _untypenize) ==
    LET Read(r, err) ==
            IF r.err # "" \/ ~_untypenize THEN r
            ELSE IF err # "" THEN Raise(err)
            ELSE Ok([i \in 1..Len(r.val) |->
                       IF r.val[i].list THEN r.val[i]
                       ELSE [r.val[i] EXCEPT !.rows = UntypenizeRows(r.val[i].rows)]])
    IN Read(JsonMiddleware_read(f), DataErr(JsonMiddleware_read(f).val))

\* LemonStorage.write: raw writes item as a root dict; otherwise item is a
\* table dict that becomes table table_name, or is merged into it.
LemonStorage_write(f, item, table_name, mode, raw) ==
    LET Merged(data, i) ==
            IF i = 0 THEN Append(data, TableEntry(table_name, item))
            ELSE [data EXCEPT ![i].rows = DictUpdate(data[i].rows, item)]
        Write(r) ==
            IF ~raw /\ r.err # "" THEN r
            ELSE JsonMiddleware_write(
                     f, IF raw THEN item ELSE Merged(r.val, TopIndex(r.val, table_name)),
                     mode)
    IN Write(LemonStorage_read(f, FALSE))

\* _increment_id: 0 for an empty table, else int(max(keys)) + 1, where the keys
\* are str and max compares them as str.
_increment_id(table) ==
    LET Next_id(m) == IF IsInt(m) THEN Ok(int(m) + 1) ELSE Raise("ValueError")
    IN IF Len(table) = 0 THEN Ok(0) ELSE Next_id(max(Keys(table)))

\* LemonStorage._increment: table.update({document_id: item}), an int key.
\* val is the table, id the document_id.
_increment(table, item) ==
    LET Added(d) ==
            IF d.err # "" THEN [err |-> d.err, val |-> <<>>, id |-> -1]
            ELSE [err |-> "", val |-> DictUpdate(table, <<Row(TRUE, str(d.val), item)>>),
                  id |-> d.val]
    IN Added(_increment_id(table))

\* The table dict {name: {}} the code uses for a table it does not find.
Placeholder(name) == <<Row(FALSE, Chars(name), Plain(<<>>))>>

\* LemonDB.__read_table__: the handle's own table, or {table_name: {}}.
__read_table__(f, table_name) ==
    LET Get(r) ==
            IF r.err # "" THEN r
            ELSE IF TopIndex(r.val, table_name) = 0 THEN Ok(Placeholder(table_name))
            ELSE Ok(r.val[TopIndex(r.val, table_name)].rows)
    IN Get(LemonStorage_read(f, FALSE))

\* LemonDB.__construct_table with a non-empty raw: the handle's own table
\* with raw added, merged into data.
__construct_table(f, table_name, data, raw) ==
    LET Merge(inc) ==
            IF inc.err # "" THEN inc
            ELSE [err |-> "", val |-> DictUpdate(data, inc.val), id |-> inc.id]
        Construct(t) ==
            IF t.err # "" THEN [err |-> t.err, val |-> <<>>, id |-> -1]
            ELSE Merge(_increment(t.val, raw))
    IN Construct(__read_table__(f, table_name))

\* ---------------------------------------------------------- Python objects
\* What an operation takes or returns: None, an int, a dict, a list, a
\* LemonCursor (items: what it holds), a set or a list of tags.
NoneObj == [kind |-> "none", n |-> 0, e |-> Plain(<<>>), items |-> <<>>]
IntObj(n) == [kind |-> "int", n |-> n, e |-> Plain(<<>>), items |-> <<>>]
DictObj(e) == [kind |-> "dict", n |-> 0, e |-> e, items |-> <<>>]
ListObj(items) == [kind |-> "list", n |-> 0, e |-> Plain(<<>>), items |-> items]
CursorObj(items) == [kind |-> "cursor", n |-> 0, e |-> Plain(<<>>), items |-> items]

\* A field value as an object: a nested dict as a dict of its fields, a set,
\* a list of tags (the object holds the list as t), or an int.
ValObj(v) ==
    IF v.isRec THEN DictObj(Plain(v.f))
    ELSE IF v.isSet THEN [kind |-> "set", n |-> 0, e |-> Plain(<<>>), items |-> <<>>]
    ELSE IF v.isList THEN [ListObj(<<>>) EXCEPT !.kind = "tags", !.e = Entry(<<>>, FALSE, v.t)]
    ELSE IntObj(v.n)

\* == on field values and on dicts: same keys with equal values, whatever
\* the order.
RECURSIVE FieldsEq(_, _)
FieldsEq(f, g) ==
    LET ValEq(v, w) ==
            /\ v.isRec = w.isRec
            /\ v.isSet = w.isSet
            /\ v.isList = w.isList
            /\ IF v.isRec THEN FieldsEq(v.f, w.f) ELSE IF v.isList THEN v.t = w.t ELSE v.n = w.n
    IN /\ Len(f) = Len(g)
       /\ \A i \in 1..Len(f) : \E j \in 1..Len(g) : f[i].k = g[j].k /\ ValEq(f[i].v, g[j].v)
\* key == v where v is a dict read from the file: a cursor has no __eq__ and
\* equals nothing but itself, an int or a list never equals a dict.
EqDict(key, e) ==
    /\ key.kind = "dict"
    /\ key.e.typed = e.typed
    /\ key.e.typed => key.e.t = e.t
    /\ FieldsEq(key.e.f, e.f)

\* bool(obj): a cursor has __len__, and the set {1, 2} is not empty.
Truthy(obj) ==
    CASE obj.kind = "none" -> FALSE
      [] obj.kind = "int" -> obj.n # 0
      [] obj.kind = "dict" -> Len(obj.e.f) > 0 \/ obj.e.typed
      [] obj.kind \in {"list", "cursor"} -> Len(obj.items) > 0
      [] obj.kind = "tags" -> Len(obj.e.t) > 0
      [] OTHER -> TRUE

\* ----------------------------------------------------------------- queries
\* form "none": no query (None, or an empty dict); "dict": a partial record f;
\* "sq": Query().item <op> key; "re": a pattern of digits pat; "lambda": one of
\* the predicates below; "other": anything else that is true (5, [1]).
NoQuery == [form |-> "none", f |-> <<>>, op |-> "", key |-> 0, item |-> "", pat |-> <<>>, pred |-> ""]
DictQuery(f) == [NoQuery EXCEPT !.form = "dict", !.f = f]
SearchQuery(item, op, key) == [NoQuery EXCEPT !.form = "sq", !.op = op, !.key = key, !.item = item]
Pattern(pat) == [NoQuery EXCEPT !.form = "re", !.pat = pat]
Lambda(pred) == [NoQuery EXCEPT !.form = "lambda", !.pred = pred]

\* ops[op](x, y) on two ints.
ops(op, x, y) ==
    CASE op = "==" -> x = y
      [] op = "!=" -> x # y
      [] op = "<" -> x < y
      [] op = "<=" -> x <= y
      [] op = ">" -> x > y
      [] op = ">=" -> x >= y

\* The wrapper search builds for a SearchQuery with an int key: i[item]
\* raises on an int and on a dict without item, and ops[op](x, key) on a
\* value x that is no int is False for ==, True for != and raises for the
\* orderings.  The value is "T", "F", or "raise".
ApplySq(q, v) ==
    LET Compare(x) ==
            IF IsIntV(x) THEN IF ops(q.op, x.n, q.key) THEN "T" ELSE "F"
            ELSE IF q.op = "==" THEN "F"
            ELSE IF q.op = "!=" THEN "T"
            ELSE "raise"
        Item(hits) == IF hits = {} THEN "raise" ELSE Compare(v.f[CHOOSE i \in hits : TRUE].v)
    IN IF ~v.isRec THEN "raise" ELSE Item({i \in 1..Len(v.f) : v.f[i].k = q.item})

\* The predicates a caller passes: "true" is lambda r: True, "a1" is
\* lambda r: r['a'] == 1, which is what the wrapper of Query().a == 1 does.
ApplyPred(pred, v) ==
    CASE pred = "true" -> "T"
      [] pred = "a1" -> ApplySq(SearchQuery("a", "==", 1), v)

\* re.search(pat, s) for a pattern of plain digits: pat occurs in s.
re_search(pat, s) ==
    \E i \in 1..(Len(s) - Len(pat) + 1) : SubSeq(s, i, i + Len(pat) - 1) = pat

\* Linq.where: the items the predicate is true of; one that raises is skipped.
RECURSIVE where(_, _, _)
where(iterable, q, isSq) ==
    IF Len(iterable) = 0 THEN <<>>
    ELSE (IF "T" = (IF isSq THEN ApplySq(q, Head(iterable))
                    ELSE ApplyPred(q.pred, Head(iterable)))
          THEN <<Head(iterable)>> ELSE <<>>)
         \o where(Tail(iterable), q, isSq)

\* ------------------------------------------------------------------ search
\* LemonDB.items(item=True): the records of the handle's table, in file order.
LemonDB_items_item(f, table_name) ==
    LET Entries(rows) == [j \in 1..Len(rows) |-> rows[j].e]
        Records(r) ==
            IF r.err # "" THEN r
            ELSE IF TopIndex(r.val, table_name) = 0 THEN Raise("AttributeError")
            ELSE Ok(Entries(r.val[TopIndex(r.val, table_name)].rows))
    IN Records(LemonStorage_read(f, TRUE))

\* LemonDB.items(dict=True): the loop over the table leaves the fields of its
\* last record, one {field: value} each; search reads the values.
LemonDB_items_dict(f, table_name) ==
    LET Values(last) == [j \in 1..Len(last.f) |-> last.f[j].v]
        Fields(r) ==
            IF r.err # "" THEN r
            ELSE IF Len(r.val) = 0 THEN Ok(<<>>)
            ELSE Ok(Values(r.val[Len(r.val)]))
    IN Fields(LemonDB_items_item(f, table_name))

\* The end of every branch of search: the cursor, cut by rate (None or an
\* int; "rate and ..." is false of None and of 0).
Rated(items, rate) ==
    IF Truthy(rate) /\ Len(items) = 0 THEN ListObj(<<>>)
    ELSE IF Truthy(rate) /\ rate.n <= 1 THEN items[1]
    ELSE IF Truthy(rate)
         THEN ListObj(SubSeq(items, 1, IF rate.n < Len(items) THEN rate.n ELSE Len(items)))
    ELSE CursorObj(items)

\* set(query).intersection(item) for the items of one record: "T" when it is
\* not empty, "F" when it is, "raise" when it raises TypeError.  The items of
\* the record are hashed one after the other, which a value that is no int
\* cannot be, and found counts those that are in the query; the walk ends
\* when as many were found as the query has.
RECURSIVE Intersection(_, _, _, _)
Intersection(query, fields, j, found) ==
    IF j > Len(fields) THEN IF found > 0 THEN "T" ELSE "F"
    ELSE IF ~IsIntV(fields[j].v) THEN "raise"
    ELSE IF \E i \in 1..Len(query) :
                query[i].k = fields[j].k /\ query[i].v.n = fields[j].v.n
         THEN IF found + 1 >= Len(query) THEN "T"
              ELSE Intersection(query, fields, j + 1, found + 1)
    ELSE Intersection(query, fields, j + 1, found)

\* iterate_dict(item): the values of the dict that are no dicts, and of its
\* nested dicts in their place, depth first.
RECURSIVE iterate_dict(_)
iterate_dict(fields) ==
    IF Len(fields) = 0 THEN <<>>
    ELSE (IF Head(fields).v.isRec THEN iterate_dict(Head(fields).v.f)
          ELSE <<Head(fields).v>>)
         \o iterate_dict(Tail(fields))

\* The pattern branch on one field value (a nested dict): the value once for
\* every leaf whose str the pattern is found in.  The str of the set is
\* "{1, 2}".
ReHits(v, leaves, pat) ==
    LET Str(rv) ==
            IF rv.isSet THEN <<123, 49, 44, 32, 50, 125>>
            ELSE IF rv.isList THEN ManifestText(rv.t, 39)
            ELSE str(rv.n)
    IN [h \in 1..Cardinality({i \in 1..Len(leaves) : re_search(pat, Str(leaves[i]))}) |-> v]

RECURSIVE ReResult(_, _)
ReResult(values, pat) ==
    IF Len(values) = 0 THEN <<>>
    ELSE ReHits(Head(values), iterate_dict(Head(values).f), pat)
         \o ReResult(Tail(values), pat)

Objs(values) == [i \in 1..Len(values) |-> ValObj(values[i])]
DictObjs(entries) == [i \in 1..Len(entries) |-> DictObj(entries[i])]

\* LemonDB.search(query, rate=rate) on the handle whose table is table_name.
LemonDB_search(f, table_name, query, rate) ==
    LET Shares(e) == Intersection(query.f, e.f, 1, 0) = "T"
        \* set(query) raises on a value of the query that is no int
        Unhashable == \E i \in 1..Len(query.f) : ~IsIntV(query.f[i].v)
        \* The list a branch builds, from the field values (items) or from the
        \* records (recs) of the table.
        Found(items, recs) ==
            IF items.err # "" THEN items
            ELSE IF query.form = "none" THEN Ok(DictObjs(recs))
            ELSE IF query.form = "dict"
                 THEN IF \/ Len(recs) > 0 /\ Unhashable
                         \/ \E i \in 1..Len(recs) :
                                Intersection(query.f, recs[i].f, 1, 0) = "raise"
                      THEN Raise("TypeError")
                      ELSE Ok(DictObjs(SelectSeq(recs, Shares)))
            ELSE IF query.form = "re"
                 THEN IF \E i \in 1..Len(items.val) : ~items.val[i].isRec
                      THEN Raise("AttributeError")
                      ELSE Ok(Objs(ReResult(items.val, query.pat)))
            ELSE IF query.form \in {"sq", "lambda"}
                 THEN Ok(Objs(where(items.val, query, query.form = "sq")))
            ELSE Ok(<<>>)
        Cut(r) == IF r.err # "" THEN r ELSE Ok(Rated(r.val, rate))
    IN Cut(Found(LemonDB_items_dict(f, table_name),
                 LemonDB_items_item(f, table_name).val))

\* LemonDB.find_one
LemonDB_find_one(f, table_name, query) == LemonDB_search(f, table_name, query, IntObj(1))

\* LemonDB.tables: the names of the root dict but the version's.
LemonDB_tables(f) ==
    LET Named(t) == t.name # VersionKey
        Names(kept) == [i \in 1..Len(kept) |-> kept[i].name]
        Listed(r) == IF r.err # "" THEN r ELSE Ok(Names(SelectSeq(r.val, Named)))
    IN Listed(LemonStorage_read(f, TRUE))

\* ------------------------------------------------------------------ insert
\* What an operation gives: the error it raises ("" when it returns), the
\* file it leaves, the id it allocated (-1: none) and the value it returns.
Outcome(err, f, id, ret) == [err |-> err, file |-> f, id |-> id, ret |-> ret]

\* LemonDB.insert(item, table=table) on the handle whose table is table_name
\* (table is table_name when the option is not given).
LemonDB_insert(f, table_name, item, table) ==
    LET \* raw_data.get(table), or {table: {}} when that is absent or empty
        _r_d(data, i) ==
            IF i = 0 THEN Placeholder(table)
            ELSE IF Len(data[i].rows) = 0 THEN Placeholder(table)
            ELSE data[i].rows
        Incremented(own, typed) ==
            IF own.err # "" THEN [err |-> own.err, val |-> <<>>, id |-> -1]
            ELSE _increment(own.val, typed)
        \* the write raises before it opens the file, or in the dump
        Written(built, w, typed) ==
            IF w.err = "TypeError" THEN Outcome(w.err, w.val, built.id, NoneObj)
            ELSE IF w.err # "" THEN Outcome(w.err, f, built.id, NoneObj)
            ELSE Outcome("", w.val, built.id, DictObj(typed))
        Built(built, typed) ==
            IF built.err # "" THEN Outcome(built.err, f, -1, NoneObj)
            ELSE Written(built, LemonStorage_write(f, built.val, table, "r+", FALSE), typed)
        Inserted(raw_data, typed) ==
            IF raw_data.err # "" THEN Outcome(raw_data.err, f, -1, NoneObj)
            ELSE Built(IF table = table_name
                       THEN Incremented(__read_table__(f, table_name), typed)
                       ELSE __construct_table(
                                f, table_name,
                                _r_d(raw_data.val, TopIndex(raw_data.val, table)), typed),
                       typed)
    IN Inserted(LemonStorage_read(f, FALSE), typenize(item))

\* The dicts of an iterable in the order of the sequence: objs are the dict
\* objects and refs, one for each place of the sequence, the object at that
\* place (a sequence can hold one dict twice).
Listed(iterable, objs) ==
    [i \in 1..Len(iterable.refs) |-> DictObj(objs[iterable.refs[i]])]

\* The loop of insert_many, n rounds of it at most: m is how far it has got,
\* the place m.i of the sequence, the file, the dicts as they are and the ids
\* the inserts allocated.  One insert comes after the other until one raises,
\* and every insert typenizes the dict it is given in place.
RECURSIVE InsertEach(_, _, _, _)
InsertEach(table_name, iterable, m, n) ==
    LET Then(out) ==
            IF out.err # "" THEN [m EXCEPT !.err = out.err, !.file = out.file]
            ELSE [err |-> "", file |-> out.file, ids |-> Append(m.ids, out.id),
                  objs |-> [m.objs EXCEPT ![iterable.refs[m.i]] = out.ret.e], i |-> m.i + 1]
    IN IF m.err # "" \/ m.i > Len(iterable.refs) \/ n = 0 THEN m
       ELSE IF n = 1
            THEN Then(LemonDB_insert(m.file, table_name, m.objs[iterable.refs[m.i]],
                                     table_name))
       ELSE InsertEach(table_name, iterable,
                       InsertEach(table_name, iterable, m, n \div 2), n - n \div 2)

\* LemonDB.insert_many(iterable) on the handle whose table is table_name.  ret
\* is the iterable, whose dicts the inserts gave their "$type".
LemonDB_insert_many(f, table_name, iterable) ==
    LET Done(m) ==
            [err |-> m.err, file |-> m.file, ids |-> m.ids,
             ret |-> IF m.err = "" THEN ListObj(Listed(iterable, m.objs)) ELSE NoneObj]
    IN Done(InsertEach(table_name, iterable,
                       [err |-> "", file |-> f, ids |-> <<>>, objs |-> iterable.objs, i |-> 1],
                       Len(iterable.refs)))

\* The loop of migrate over the tables from place i on: items(name) reads the
\* file when the turn of the table comes and gives one {key: record} for
\* every row, and these are inserted into the handle's own table, unless
\* there is none.  ids are the ids the inserts allocated.
RECURSIVE MigrateEach(_, _, _, _)
MigrateEach(f, table_name, names, i) ==
    LET Many(err, file, ids) == [err |-> err, file |-> file, ids |-> ids]
        _items(rows) ==
            [objs |-> [j \in 1..Len(rows) |->
                          Plain(<<Fld(NameOf(rows[j].k), RecV(rows[j].e.f))>>)],
             refs |-> [j \in 1..Len(rows) |-> j]]
        Then(m, rest) == [rest EXCEPT !.ids = m.ids \o @]
        Inserted(m) ==
            IF m.err # "" THEN Many(m.err, m.file, m.ids)
            ELSE Then(m, MigrateEach(m.file, table_name, names, i + 1))
        Read(r) ==
            IF r.err # "" THEN Many(r.err, f, <<>>)
            ELSE IF TopIndex(r.val, names[i]) = 0 THEN Many("AttributeError", f, <<>>)
            ELSE Inserted(LemonDB_insert_many(
                              f, table_name, _items(r.val[TopIndex(r.val, names[i])].rows)))
    IN IF i > Len(names) THEN Many("", f, <<>>)
       ELSE Read(LemonStorage_read(f, TRUE))

\* LemonDB.migrate on the handle whose table is table_name: the version is
\* read (a file without one gets a warning), the rows of every table that
\* tables() names are inserted again, and __update_version reads the root dict
\* as it is in the file, puts the version of the code into it and writes it
\* with mode 'w'.  The call returns None.
LemonDB_migrate(f, table_name) ==
    LET Many(err, file, ids) == [err |-> err, file |-> file, ids |-> ids, ret |-> NoneObj]
        Written(m, w) ==
            IF w.err = "TypeError" THEN Many(w.err, w.val, m.ids)
            ELSE IF w.err # "" THEN Many(w.err, m.file, m.ids)
            ELSE Many("", w.val, m.ids)
        __update_version(m, data) ==
            IF data.err # "" THEN Many(data.err, m.file, m.ids)
            ELSE Written(m, LemonStorage_write(m.file, TopUpdate(data.val, <<VersionEntry>>),
                                               "", "w", TRUE))
        Migrated(m) ==
            IF m.err # "" THEN Many(m.err, m.file, m.ids)
            ELSE __update_version(m, LemonStorage_read(m.file, FALSE))
        Named(names) ==
            IF names.err # "" THEN Many(names.err, f, <<>>)
            ELSE Migrated(MigrateEach(f, table_name, names.val, 1))
    IN Named(LemonDB_tables(f))

\* ------------------------------------------------------------------ update
\* The inner loop of update over one table: every row up to the match is
\* untypenized in place; the match takes the fields and the "$type" of
\* typenize(item) and ends the loop.  item is the caller's dict as it is when
\* the loop starts and, in the outcome, as the loop leaves it.
RECURSIVE UpdateRows(_, _, _)
UpdateRows(rows, result, item) ==
    IF Len(rows) = 0 THEN [err |-> "", val |-> <<>>, item |-> item]
    ELSE LET Kept(r, e, rest) ==
                 IF rest.err # "" THEN rest
                 ELSE [rest EXCEPT !.val = <<Row(r.isInt, r.k, e)>> \o @]
             Match(r, e, typed) ==
                 [err |-> "",
                  val |-> <<Row(r.isInt, r.k, Entry(FieldsUpdate(e.f, typed.f), TRUE, typed.t))>>
                          \o Tail(rows),
                  item |-> typed]
             Visit(r, e, err) ==
                 IF err # "" THEN [err |-> err, val |-> <<>>, item |-> item]
                 ELSE IF EqDict(result, e) THEN Match(r, e, typenize(item))
                 ELSE Kept(r, e, UpdateRows(Tail(rows), result, item))
         IN Visit(Head(rows), untypenize(Head(rows).e), UntypenizeErr(Head(rows).e))

\* The outer loop of update over the items of the root dict: value.items()
\* raises on the version list.  The match of one table ends the loop over that
\* table only, so item is typenized once for every table with a match.
RECURSIVE UpdateData(_, _, _)
UpdateData(data, result, item) ==
    IF Len(data) = 0 THEN [err |-> "", val |-> <<>>, item |-> item]
    ELSE LET Kept(rows, rest) ==
                 IF rest.err # "" THEN rest
                 ELSE [rest EXCEPT !.val = <<[Head(data) EXCEPT !.rows = rows.val]>> \o @]
             Visit(rows) ==
                 IF rows.err # "" THEN rows
                 ELSE Kept(rows, UpdateData(Tail(data), result, rows.item))
         IN IF Head(data).list THEN [err |-> "AttributeError", val |-> <<>>, item |-> item]
            ELSE Visit(UpdateRows(Head(data).rows, result, item))

\* LemonDB.update(query, item): the value it returns is item, which has a
\* "$type" when a row was equal to what find_one gave.
LemonDB_update(f, table_name, query, item) ==
    LET Written(w, upd) ==
            IF w.err = "TypeError" THEN Outcome(w.err, w.val, -1, NoneObj)
            ELSE IF w.err # "" THEN Outcome(w.err, f, -1, NoneObj)
            ELSE Outcome("", w.val, -1, DictObj(upd.item))
        Updated(upd) ==
            IF upd.err # "" THEN Outcome(upd.err, f, -1, NoneObj)
            ELSE Written(LemonStorage_write(f, upd.val, table_name, "w", TRUE), upd)
        Loaded(result, data) ==
            IF data.err # "" THEN Outcome(data.err, f, -1, NoneObj)
            ELSE Updated(UpdateData(data.val, result.val, item))
        Searched(result) ==
            IF result.err # "" THEN Outcome(result.err, f, -1, NoneObj)
            ELSE IF ~Truthy(result.val) THEN Outcome("SearchQueryError", f, -1, NoneObj)
            ELSE Loaded(result, LemonStorage_read(f, FALSE))
    IN Searched(LemonDB_find_one(f, table_name, query))

\* ------------------------------------------------------------------ delete
\* The inner loop of JsonMiddleware.delete over one table.
RECURSIVE DeleteRows(_, _, _)
DeleteRows(rows, key, all) ==
    IF Len(rows) = 0 THEN <<>>
    ELSE LET InKey(v) == key.kind = "list"
                          /\ \E i \in 1..Len(key.items) : EqDict(key.items[i], v)
             Visit(v, eq, rest) ==
                 IF eq /\ ~all THEN Tail(rows)
                 ELSE IF InKey(v) \/ eq THEN rest
                 ELSE <<Head(rows)>> \o rest
         IN Visit(Head(rows).e, EqDict(key, Head(rows).e),
                  DeleteRows(Tail(rows), key, all))

\* The outer loop of JsonMiddleware.delete over the items of the root dict:
\* value.items() raises on the version list.
RECURSIVE DeleteData(_, _, _)
DeleteData(data, key, all) ==
    IF Len(data) = 0 THEN Ok(<<>>)
    ELSE LET Kept(rest) ==
                 IF rest.err # "" THEN rest
                 ELSE Ok(<<[Head(data) EXCEPT
                               !.rows = DeleteRows(Head(data).rows, key, all)]>>
                         \o rest.val)
         IN IF Head(data).list THEN Raise("AttributeError")
            ELSE Kept(DeleteData(Tail(data), key, all))

\* JsonMiddleware.delete(key, path, all); val is the file afterwards.
JsonMiddleware_delete(f, key, all) ==
    LET Deleted(del) ==
            IF del.err # "" THEN del ELSE JsonMiddleware_write(f, del.val, "w")
        Loaded(data) ==
            IF data.err # "" THEN data ELSE Deleted(DeleteData(data.val, key, all))
    IN Loaded(JsonMiddleware_read(f))

\* LemonStorage.delete
LemonStorage_delete(f, item, all) == JsonMiddleware_delete(f, item, all)

\* LemonDB.delete(query, all=all): lit is the query when it is a Mapping (and
\* NoneObj otherwise, when query is searched for).
LemonDB_delete(f, table_name, lit, query, all) ==
    LET Key(err, data, found) == [err |-> err, data |-> data, found |-> found]
        Deleted(data, d) ==
            IF d.err # "" THEN Outcome(d.err, f, -1, NoneObj)
            ELSE Outcome("", d.val, -1, data)
        Delete(key) ==
            IF key.err # "" THEN Outcome(key.err, f, -1, NoneObj)
            ELSE IF ~key.found THEN Outcome("", f, -1, NoneObj)
            ELSE Deleted(key.data, LemonStorage_delete(f, key.data, all))
        Searched(found) ==
            IF found.err # "" THEN Key(found.err, NoneObj, FALSE)
            ELSE IF all THEN Key("", found.val, TRUE)
            ELSE IF Len(found.val.items) = 0 THEN Key("", NoneObj, FALSE)
            ELSE Key("", found.val.items[1], TRUE)
    IN Delete(IF lit.kind = "dict" THEN Key("", lit, TRUE)
              ELSE Searched(LemonDB_search(f, table_name, query, NoneObj)))

\* LemonDB.clear: read the storage, then have the plugin write a new file at
\* the path and with the table name of its last run().  The value is the dict
\* that was read, after data.clear(): {}.
LemonDB_clear(f) ==
    LET Read(data) == IF data.err # "" THEN data ELSE Ok(DictObj(Plain(<<>>)))
    IN Read(LemonStorage_read(f, TRUE))

\* ------------------------------------------------------------------ inputs
R1 == <<Fld("a", IntV(1))>>
R2 == <<Fld("a", IntV(2)), Fld("b", IntV(1))>>
\* The records a behaviour inserts; R2 is the record of the populated database.
Records == {Plain(R1), Plain(<<Fld("x", RecV(<<Fld("a", IntV(1))>>))>>)}
\* A record that is never stored, and the records that are.
Unstored == Plain(<<Fld("a", IntV(7))>>)
Stored == Records \cup {Plain(R2)}
Queries ==
    {NoQuery, DictQuery(R1), DictQuery(Unstored.f), SearchQuery("a", "==", 1),
     Pattern(<<49>>), Pattern(<<55>>), Lambda("true"), Lambda("a1"),
     [NoQuery EXCEPT !.form = "other"]}
TableNames == {DefaultTable, OtherTable}
\* The sequences insert_many is given: up to MaxMany places, each with a dict
\* of its own or with a dict that an earlier place has too.
Iterables ==
    {it \in [objs : UNION {[1..n -> Records] : n \in 0..MaxMany},
             refs : UNION {[1..n -> 1..MaxMany] : n \in 0..MaxMany}] :
        /\ {it.refs[i] : i \in 1..Len(it.refs)} = 1..Len(it.objs)
        /\ \A i \in 1..Len(it.refs) :
               it.refs[i] <= 1 + Cardinality({it.refs[j] : j \in 1..(i - 1)})}

\* The records the codec is given: no field, one field or two, each value an
\* int, an empty nested dict, a nested dict of one int, or a set.
FieldNames == {"b", "x"}
CodecValues == {IntV(1), RecV(<<>>), RecV(<<Fld("a", IntV(1))>>), SetV}
CodecRecords ==
    {Plain(<<>>)}
    \cup {Plain(<<Fld(k, v)>>) : k \in FieldNames, v \in CodecValues}
    \cup {Plain(<<Fld(k[1], v), Fld(k[2], w)>>) :
             k \in {n \in FieldNames \X FieldNames : n[1] # n[2]},
             v \in CodecValues, w \in CodecValues}

\* The callers whose inserts run at the same time, on the default handle.
Writers == {"w1", "w2"}

\* ------------------------------------------------------------------- state
VARIABLES
    files,    \* file name -> file: the backing file and the files table() makes
    handles,  \* the table_name of every LemonDB handle on the backing file
    plugin,   \* the name and table_name of the shared plugin's last run()
    nIns,     \* inserts that wrote the file
    alloc,    \* table -> the ids inserts allocated for it since the backing
              \* file was last made anew, in call order
    call,     \* the last call: its arguments and its outcome
    pre,      \* the backing file before the last call
    cursors,  \* the cursors the caller holds, in the order they were made
    writers   \* the inserts of concurrent callers: how far each has got

\* A writer is an insert between two of its file accesses.  pc: "idle" before
\* the call, "read" after raw_data was read, "built" after __read_table__ and
\* _increment, "merged" after the read and table.update of LemonStorage.write,
\* "updated" after the read and data.update of JsonMiddleware.write, "done"
\* after the dump or after an exception.  typed, built and data are the
\* locals item, item after _increment, and data; dumps is how many dumps of
\* other inserts there were when the table was built, order the place of this
\* insert's dump among the dumps.  old is the text the file held before a dump
\* that another insert made since this insert's last step (<<>> when there was
\* none): a read of this insert that had begun by then has read that text to
\* its end, and its next read() call gives what the file now holds after it.

vars == <<files, handles, plugin, nIns, alloc, call, pre, cursors, writers>>

\* again: the call is a search and the call before it was the same search.
Record(op, h, table, arg, q, all, rate, out, again) ==
    [op |-> op, h |-> h, table |-> table, arg |-> arg, q |-> q, all |-> all,
     rate |-> rate, err |-> out.err, id |-> out.id, ret |-> out.ret, again |-> again]

Call(op, h, table, arg, q, all, rate, out) ==
    Record(op, h, table, arg, q, all, rate, out,
           op = "search" /\ call.op = "search" /\ call.h = h /\ call.q = q
               /\ call.rate = rate)

\* The backing file after n inserts of {'a': 2, 'b': 1} into a new database.
RECURSIVE Populated(_, _)
Populated(f, n) ==
    IF n = 0 \/ ~f.exists THEN f
    ELSE IF n = 1 THEN LemonDB_insert(f, DefaultTable, Plain(R2), DefaultTable).file
    ELSE Populated(Populated(f, n \div 2), n - n \div 2)

Init ==
    /\ \E f \in {_init_db(DefaultTable), Populated(_init_db(DefaultTable), PreRows)} :
          /\ files = [n \in {MainFile, OtherTable} |-> IF n = MainFile THEN f ELSE NoFile]
          /\ pre = f
    /\ handles = {DefaultTable}
    /\ plugin = [name |-> MainFile, table_name |-> DefaultTable]
    /\ nIns = 0
    /\ alloc = [t \in TableNames |-> <<>>]
    /\ cursors = <<>>
    /\ writers = [w \in Writers |->
                      [pc |-> "idle", item |-> Plain(<<>>), typed |-> Plain(<<>>),
                       built |-> <<>>, id |-> -1, data |-> <<>>, err |-> "",
                       dumps |-> 0, order |-> 0, old |-> <<>>]]
    /\ call = Record("init", DefaultTable, "", NoneObj, NoQuery, FALSE, NoneObj,
                     Outcome("", NoFile, -1, NoneObj), FALSE)

\* What a call that does not write leaves: the file as it was, and the value
\* ret when the call returns.
Returned(r, f, ret) ==
    Outcome(r.err, ReadOnly(f), -1, IF r.err = "" THEN ret ELSE NoneObj)

\* insert(item) and insert(item, table=table).  Every handle reads and writes
\* the backing file through the one storage, and that file exists, so the
\* plugin is not asked for a new one.
Insert ==
    \E h \in handles, item \in Records, table \in TableNames :
        LET Done(out) ==
                /\ files' = [files EXCEPT ![MainFile] = out.file]
                /\ nIns' = IF out.err = "" THEN nIns + 1 ELSE nIns
                /\ alloc' = IF out.err = "" THEN [alloc EXCEPT ![table] = Append(@, out.id)]
                            ELSE alloc
                /\ call' = Call("insert", h, table, DictObj(item), NoQuery, FALSE, NoneObj, out)
        IN /\ nIns < MaxInserts
           /\ Done(LemonDB_insert(files[MainFile], h, item, table))
           /\ pre' = files[MainFile]
           /\ UNCHANGED <<writers, cursors, handles, plugin>>

\* update(query, item)
Update ==
    \E h \in handles, query \in Queries, item \in {Plain(<<Fld("b", IntV(2))>>), Plain(<<Fld("a", IntV(3))>>)} :
        LET Done(out) ==
                /\ files' = [files EXCEPT ![MainFile] = out.file]
                /\ call' = Call("update", h, "", DictObj(item), query, FALSE, NoneObj, out)
        IN /\ Done(LemonDB_update(files[MainFile], h, query, item))
           /\ pre' = files[MainFile]
           /\ UNCHANGED <<writers, cursors, handles, plugin, nIns, alloc>>

\* delete(literal, all=all): the literal is a record as search returns it,
\* one as insert returns it (with "$type"), or one that is never stored.
DeleteLiteral ==
    \E h \in handles, all \in BOOLEAN,
       lit \in Stored \cup {typenize(e) : e \in Stored} \cup {Unstored} :
        LET Done(out) ==
                /\ files' = [files EXCEPT ![MainFile] = out.file]
                /\ call' = Call("delete", h, "", DictObj(lit), NoQuery, all, NoneObj, out)
        IN /\ Done(LemonDB_delete(files[MainFile], h, DictObj(lit), NoQuery, all))
           /\ pre' = files[MainFile]
           /\ UNCHANGED <<writers, cursors, handles, plugin, nIns, alloc>>

\* delete(query, all=all) with a query that is not a Mapping
DeleteQuery ==
    \E h \in handles, query \in Queries \ {DictQuery(R1), DictQuery(Unstored.f)},
       all \in BOOLEAN :
        LET Done(out) ==
                /\ files' = [files EXCEPT ![MainFile] = out.file]
                /\ call' = Call("delete", h, "", NoneObj, query, all, NoneObj, out)
        IN /\ Done(LemonDB_delete(files[MainFile], h, NoneObj, query, all))
           /\ pre' = files[MainFile]
           /\ UNCHANGED <<writers, cursors, handles, plugin, nIns, alloc>>

\* search(query, rate=rate); find is the same call.  rate is None when the
\* option is not given; find_one is the search with rate 1.
Search ==
    \E h \in handles, query \in Queries,
       rate \in {NoneObj, IntObj(0), IntObj(2), IntObj(-1)} :
        LET Done(out) ==
                /\ files' = [files EXCEPT ![MainFile] = out.file]
                /\ call' = Call("search", h, "", NoneObj, query, FALSE, rate, out)
            Read(r) == Done(Returned(r, files[MainFile], r.val))
        IN /\ Read(LemonDB_search(files[MainFile], h, query, rate))
           /\ pre' = files[MainFile]
           /\ UNCHANGED <<writers, cursors, handles, plugin, nIns, alloc>>

\* find_one(query)
FindOne ==
    \E h \in handles, query \in Queries :
        LET Done(out) ==
                /\ files' = [files EXCEPT ![MainFile] = out.file]
                /\ call' = Call("find_one", h, "", NoneObj, query, FALSE, IntObj(1), out)
            Read(r) == Done(Returned(r, files[MainFile], r.val))
        IN /\ Read(LemonDB_find_one(files[MainFile], h, query))
           /\ pre' = files[MainFile]
           /\ UNCHANGED <<writers, cursors, handles, plugin, nIns, alloc>>

\* tables(): the call keeps how many names it returned
Tables ==
    \E h \in handles :
        LET Done(out) ==
                /\ files' = [files EXCEPT ![MainFile] = out.file]
                /\ call' = Call("tables", h, "", NoneObj, NoQuery, FALSE, NoneObj, out)
            Read(r) == Done(Returned(r, files[MainFile], IntObj(Len(r.val))))
        IN /\ Read(LemonDB_tables(files[MainFile]))
           /\ pre' = files[MainFile]
           /\ UNCHANGED <<writers, cursors, handles, plugin, nIns, alloc>>

\* items(item=True)
Items ==
    \E h \in handles :
        LET Done(out) ==
                /\ files' = [files EXCEPT ![MainFile] = out.file]
                /\ call' = Call("items", h, "", NoneObj, NoQuery, FALSE, NoneObj, out)
            Read(r) == Done(Returned(r, files[MainFile], ListObj(DictObjs(r.val))))
        IN /\ Read(LemonDB_items_item(files[MainFile], h))
           /\ pre' = files[MainFile]
           /\ UNCHANGED <<writers, cursors, handles, plugin, nIns, alloc>>

\* clear()
Clear ==
    \E h \in handles :
        LET Done(r) ==
                /\ files' = IF r.err = ""
                            THEN [files EXCEPT ![plugin.name] = _init_db(plugin.table_name)]
                            ELSE files
                /\ alloc' = IF r.err = "" /\ plugin.name = MainFile
                            THEN [t \in TableNames |-> <<>>]
                            ELSE alloc
                /\ call' = Call("clear", h, "", NoneObj, NoQuery, FALSE, NoneObj,
                                Returned(r, files[MainFile], r.val))
        IN /\ Done(LemonDB_clear(files[MainFile]))
           /\ pre' = files[MainFile]
           /\ UNCHANGED <<writers, cursors, handles, plugin, nIns>>

\* LemonDB.run_plugin on a handle whose name and table are given: the shared
\* plugin keeps the name and the table name of the handle that ran it last.
LemonDB_run_plugin(name, table_name) == [name |-> name, table_name |-> table_name]

\* The end of LemonDB.__init__: the storage is read, and the version of the
\* file is compared with the version of the code, which raises TypeError when
\* the file has none (None < list).
LemonDB_init_read(f) ==
    LET Compared(r) ==
            IF r.err # "" THEN r
            ELSE IF TopIndex(r.val, VersionKey) = 0 THEN Raise("TypeError")
            ELSE r
    IN Compared(LemonStorage_read(f, TRUE))

\* table(name): a new LemonDB on the same storage and plugin.  The plugin is
\* run with the table's name, a file of that name is created when there is
\* none, and the handle exists once the storage has been read and the version
\* compared.
Table ==
    \E h \in handles, name \in TableNames \ {DefaultTable} :
        LET Done(r) ==
                /\ handles' = IF r.err = "" THEN handles \cup {name} ELSE handles
                /\ call' = Call("table", h, name, NoneObj, NoQuery, FALSE, NoneObj,
                                Returned(r, files[MainFile], NoneObj))
        IN /\ plugin' = LemonDB_run_plugin(name, name)
           /\ files' = IF files[name].exists THEN files
                       ELSE [files EXCEPT ![name] = _init_db(name)]
           /\ Done(LemonDB_init_read(files[MainFile]))
           /\ pre' = files[MainFile]
           /\ UNCHANGED <<writers, cursors, nIns, alloc>>

\* run_plugin(LemonPlugin) on a handle: the default handle has the name of the
\* backing file, a handle of table(name) the name of its table.
RunPlugin ==
    \E h \in handles :
        /\ plugin' = LemonDB_run_plugin(IF h = DefaultTable THEN MainFile ELSE h, h)
        /\ call' = Call("run_plugin", h, "", NoneObj, NoQuery, FALSE, NoneObj,
                        Outcome("", files[MainFile], -1, NoneObj))
        /\ pre' = files[MainFile]
        /\ UNCHANGED <<writers, cursors, files, handles, nIns, alloc>>

\* typenize(item), of a dict without a "$type" and of one that an earlier
\* typenize gave its "$type": the call returns the dict with its "$type".
Typenize ==
    \E item \in CodecRecords \cup {typenize(r) : r \in CodecRecords} :
        /\ call' = Call("typenize", DefaultTable, "", DictObj(item), NoQuery, FALSE, NoneObj,
                        Outcome("", files[MainFile], -1, DictObj(typenize(item))))
        /\ pre' = files[MainFile]
        /\ UNCHANGED <<writers, cursors, files, handles, plugin, nIns, alloc>>

\* untypenize(data) on what typenize gave for a record.
Untypenize ==
    \E item \in CodecRecords :
        LET Done(data, err) ==
                call' = Call("untypenize", DefaultTable, "", DictObj(data), NoQuery, FALSE,
                             NoneObj,
                             Outcome(err, files[MainFile], -1,
                                     IF err = "" THEN DictObj(untypenize(data)) ELSE NoneObj))
        IN /\ Done(typenize(item), UntypenizeErr(typenize(item)))
           /\ pre' = files[MainFile]
           /\ UNCHANGED <<writers, cursors, files, handles, plugin, nIns, alloc>>

\* insert(item) of one of the codec's records into the handle's own table.
InsertRecord ==
    \E h \in handles,
       item \in {Plain(<<Fld("x", RecV(<<>>)), Fld("b", IntV(1))>>),
                 Plain(<<Fld("b", IntV(1)), Fld("x", RecV(<<>>))>>),
                 Plain(<<Fld("x", RecV(<<Fld("a", IntV(1))>>)), Fld("b", IntV(1))>>),
                 Plain(<<Fld("b", IntV(1)), Fld("x", SetV)>>)} :
        LET Done(out) ==
                /\ files' = [files EXCEPT ![MainFile] = out.file]
                /\ nIns' = IF out.err = "" THEN nIns + 1 ELSE nIns
                /\ alloc' = IF out.err = "" THEN [alloc EXCEPT ![h] = Append(@, out.id)]
                            ELSE alloc
                /\ call' = Call("insert", h, h, DictObj(item), NoQuery, FALSE, NoneObj, out)
        IN /\ nIns < MaxInserts
           /\ Done(LemonDB_insert(files[MainFile], h, item, h))
           /\ pre' = files[MainFile]
           /\ UNCHANGED <<writers, cursors, handles, plugin>>

\* insert_many(iterable)
InsertMany ==
    \E h \in handles, iterable \in Iterables :
        LET Done(out) ==
                /\ files' = [files EXCEPT ![MainFile] = out.file]
                /\ nIns' = nIns + Len(out.ids)
                /\ alloc' = [alloc EXCEPT ![h] = @ \o out.ids]
                /\ call' = Call("insert_many", h, h, ListObj(Listed(iterable, iterable.objs)),
                                NoQuery, FALSE, NoneObj,
                                Outcome(out.err, out.file, -1, out.ret))
        IN /\ nIns + Len(iterable.refs) <= MaxInserts
           /\ Done(LemonDB_insert_many(files[MainFile], h, iterable))
           /\ pre' = files[MainFile]
           /\ UNCHANGED <<writers, cursors, handles, plugin>>

\* migrate(): every row it inserts again counts as an insert.
Migrate ==
    \E h \in handles :
        LET Done(out) ==
                /\ files' = [files EXCEPT ![MainFile] = out.file]
                /\ nIns' = nIns + Len(out.ids)
                /\ alloc' = [alloc EXCEPT ![h] = @ \o out.ids]
                /\ call' = Call("migrate", h, h, NoneObj, NoQuery, FALSE, NoneObj,
                                Outcome(out.err, out.file, -1, out.ret))
        IN /\ nIns < MaxInserts
           /\ Done(LemonDB_migrate(files[MainFile], h))
           /\ pre' = files[MainFile]
           /\ UNCHANGED <<writers, cursors, handles, plugin>>

\* ----------------------------------------------------------------- cursors
\* _Cursor(data): data is a list, or (linq) the Linq object Linq.where made;
\* items are the ints and dicts that data holds, and obj tells the object
\* data from every other one: two cursors with the same obj have the same
\* list.  closed: close() returned on this cursor.
_Cursor(items, linq, obj) == [items |-> items, linq |-> linq, closed |-> FALSE, obj |-> obj]

\* len(cursor) and cursor.length: len(self.data), and Linq has no __len__.
_Cursor_len(c) ==
    IF c.linq THEN Raise("TypeError") ELSE Ok(IntObj(Len(c.items)))

\* list(cursor): iter(self.data); Linq.__iter__ iterates its iterable.
_Cursor_iter(c) == Ok(ListObj(Objs(c.items)))

\* cursor.all(): self.data itself, a list or a Linq object.
_Cursor_all(c) ==
    Ok(IF c.linq THEN [ListObj(Objs(c.items)) EXCEPT !.kind = "linq"]
       ELSE ListObj(Objs(c.items)))

\* cursor.where(condition): Linq(self.data) takes the iterable of a Linq, and
\* the new cursor's data is the Linq that Linq.where returns.
_Cursor_where_all(c, condition, obj) == _Cursor(c.items, TRUE, obj)
_Cursor_where(c, condition, obj) ==
    _Cursor(where(c.items, Lambda(condition), FALSE), TRUE, obj)

\* cursor.close(): self.data.clear(), and Linq has no clear.
_Cursor_close(c) ==
    IF c.linq THEN Raise("AttributeError")
    ELSE Ok([c EXCEPT !.items = <<>>, !.closed = TRUE])

\* cursor.add_query_result(data): self.data.append(data), and Linq has no
\* append.
_Cursor_add_query_result(c, data) ==
    IF c.linq THEN Raise("AttributeError")
    ELSE Ok([c EXCEPT !.items = Append(@, data)])

\* cursor.clone(): _Cursor(self.data.copy()), and Linq has no copy.
_Cursor_clone(c, obj) ==
    IF c.linq THEN Raise("AttributeError") ELSE Ok(_Cursor(c.items, FALSE, obj))

\* A call on cursor i: the file is not read.
CursorCall(op, i, condition, r) ==
    /\ call' = Call(op, DefaultTable, "", NoneObj, condition, FALSE, NoneObj,
                    Outcome(r.err, NoFile, i, r.val))
    /\ pre' = files[MainFile]
    /\ UNCHANGED <<writers, files, handles, plugin, nIns, alloc>>

\* The cursors cs after a call changed the list of cursor i, which is c now:
\* every cursor on that list has its elements.
Sharing(cs, i, c) ==
    [j \in 1..Len(cs) |->
        IF j = i THEN c
        ELSE IF cs[j].obj = cs[i].obj THEN [cs[j] EXCEPT !.items = c.items]
        ELSE cs[j]]

\* LemonCursor(data): data is a new list of dicts and of an int.
NewCursor ==
    \E data \in {<<>>,
                 <<RecV(<<Fld("a", IntV(1))>>)>>,
                 <<RecV(<<Fld("a", IntV(2))>>), RecV(<<Fld("a", IntV(1))>>), IntV(1),
                   RecV(<<Fld("b", IntV(1))>>), RecV(<<Fld("a", IntV(1)), Fld("b", IntV(2))>>)>>} :
        /\ Len(cursors) < MaxCursors
        /\ cursors' = Append(cursors, _Cursor(data, FALSE, Len(cursors) + 1))
        /\ CursorCall("cursor", Len(cursors) + 1, NoQuery, Ok(NoneObj))

\* LemonCursor(cursors[i].all()): data is the list, or the Linq, of cursor i.
SameCursor ==
    \E i \in 1..Len(cursors) :
        /\ Len(cursors) < MaxCursors
        /\ cursors' = Append(cursors, _Cursor(cursors[i].items, cursors[i].linq, cursors[i].obj))
        /\ CursorCall("cursor", Len(cursors) + 1, NoQuery, Ok(NoneObj))

\* cursors[i].where(condition)
CursorWhere ==
    \E i \in 1..Len(cursors), condition \in {"true", "a1"} :
        LET Made(c) ==
                /\ cursors' = Append(cursors, c)
                /\ CursorCall("cursor.where", i, Lambda(condition),
                              Ok(CursorObj(Objs(c.items))))
        IN /\ Len(cursors) < MaxCursors
           /\ Made(_Cursor_where(cursors[i], condition, Len(cursors) + 1))

\* cursors[i].clone()
CursorClone ==
    \E i \in 1..Len(cursors) :
        LET Made(r) ==
                /\ cursors' = IF r.err = "" THEN Append(cursors, r.val) ELSE cursors
                /\ CursorCall("cursor.clone", i, NoQuery,
                              IF r.err = "" THEN Ok(CursorObj(Objs(r.val.items)))
                              ELSE [err |-> r.err, val |-> NoneObj])
        IN /\ Len(cursors) < MaxCursors
           /\ Made(_Cursor_clone(cursors[i], Len(cursors) + 1))

\* cursors[i].close(): the list is empty for every cursor that has it.
CursorClose ==
    \E i \in 1..Len(cursors) :
        LET Closed(r) ==
                /\ cursors' = IF r.err = "" THEN Sharing(cursors, i, r.val) ELSE cursors
                /\ CursorCall("cursor.close", i, NoQuery, [err |-> r.err, val |-> NoneObj])
        IN Closed(_Cursor_close(cursors[i]))

\* cursors[i].add_query_result(data), data a dict: the call returns the list,
\* which every cursor that has it sees one longer.
CursorAdd ==
    \E i \in 1..Len(cursors), data \in {RecV(<<Fld("a", IntV(1))>>)} :
        LET Added(r) ==
                /\ cursors' = IF r.err = "" THEN Sharing(cursors, i, r.val) ELSE cursors
                /\ CursorCall("cursor.add_query_result", i, NoQuery,
                              IF r.err = "" THEN Ok(ListObj(Objs(r.val.items)))
                              ELSE [err |-> r.err, val |-> NoneObj])
        IN /\ Len(cursors[i].items) < MaxItems
           /\ Added(_Cursor_add_query_result(cursors[i], data))

\* A call that reads cursor i.
CursorRead(op, i, r) ==
    /\ UNCHANGED <<writers, cursors>>
    /\ CursorCall(op, i, NoQuery, IF r.err = "" THEN r ELSE [err |-> r.err, val |-> NoneObj])

\* cursors[i].all()
CursorAll == \E i \in 1..Len(cursors) : CursorRead("cursor.all", i, _Cursor_all(cursors[i]))

\* cursors[i].length
CursorLength ==
    \E i \in 1..Len(cursors) : CursorRead("cursor.length", i, _Cursor_len(cursors[i]))

\* list(cursors[i])
CursorIter ==
    \E i \in 1..Len(cursors) : CursorRead("cursor.iter", i, _Cursor_iter(cursors[i]))

\* ------------------------------------------------------------ storage write
\* storage_cls.write(database, table_name=None, raw=True, mode=mode).  The
\* root dicts a caller hands to it: an empty database, one more table, and a
\* database of both tables with one record.  The call keeps its arguments.
StorageWrite ==
    \E mode \in {"r+", "w"},
       database \in {<<VersionEntry, TableEntry(DefaultTable, <<>>)>>,
                     <<TableEntry(OtherTable, <<>>)>>,
                     <<VersionEntry,
                       TableEntry(DefaultTable, <<Row(FALSE, str(0), typenize(Plain(R1)))>>),
                       TableEntry(OtherTable, <<>>)>>} :
        LET WriteArg ==
                [kind |-> "root", n |-> 0, e |-> Plain(<<>>), items |-> database,
                 mode |-> mode]
            Done(w) ==
                /\ files' = IF w.err \in {"", "TypeError"}
                            THEN [files EXCEPT ![MainFile] = w.val]
                            ELSE [files EXCEPT ![MainFile] = ReadOnly(@)]
                /\ call' = Call("storage.write", DefaultTable, "", WriteArg,
                                NoQuery, FALSE, NoneObj,
                                Outcome(w.err, NoFile, -1, NoneObj))
        IN /\ Done(LemonStorage_write(files[MainFile], database, "", mode, TRUE))
           /\ pre' = files[MainFile]
           /\ UNCHANGED <<writers, cursors, handles, plugin, nIns, alloc>>

\* ------------------------------------------------------ concurrent inserts
Failed(w, err) == [w EXCEPT !.pc = "done", !.err = err]
Dumps == Cardinality({w \in Writers : writers[w].order > 0})

\* LemonStorage.write without raw, after its read: item becomes the table, or
\* table.update(item) puts it over the rows read.
TableMerged_keeping(data, item, table_name) ==
    LET Merged(i) ==
            IF i = 0 THEN Append(data, TableEntry(table_name, item))
            ELSE [data EXCEPT ![i].rows = DictUpdate(item, data[i].rows)]
    IN Merged(TopIndex(data, table_name))
TableMerged(data, item, table_name) ==
    LET Merged(i) ==
            IF i = 0 THEN Append(data, TableEntry(table_name, item))
            ELSE [data EXCEPT ![i].rows = DictUpdate(data[i].rows, item)]
    IN Merged(TopIndex(data, table_name))

\* JsonMiddleware.write after its read and update: open(path, mode) and dump.
JsonMiddleware_dump(f, data, mode) ==
    IF Undumpable(data) THEN [err |-> "TypeError", val |-> DumpFailed(f, data, mode)]
    ELSE Ok(Dumped(f, data, mode))

\* What a read of writer w may be given.  open() and the read() calls of
\* json.load are not one step of the file: the text read is the text the file
\* holds, or, when another insert dumped between two read() calls, the old
\* text followed by the new from where the old ended.
Seen(w) ==
    LET Torn(old, f) == FileWith(old \o SubSeq(f.text, Len(old) + 1, Len(f.text)))
    IN IF writers[w].old = <<>> THEN {files[MainFile]}
       ELSE {files[MainFile], Torn(writers[w].old, files[MainFile])}

\* A step of writer w that reads the file and leaves it as it is.
WriterStep(w, next) ==
    /\ writers' = [writers EXCEPT ![w] = [next EXCEPT !.old = <<>>]]
    /\ UNCHANGED <<files, handles, plugin, nIns, alloc, call, pre, cursors>>

\* insert(item) is called: typenize(item) and raw_data = storage.read(False).
WriterBegin ==
    \E w \in Writers, item \in Records :
        LET Read(r, typed) ==
                IF r.err # "" THEN Failed(writers[w], r.err)
                ELSE [writers[w] EXCEPT !.pc = "read", !.item = item, !.typed = typed]
            Begun(f) == Read(LemonStorage_read(f, FALSE), typenize(item))
        IN /\ writers[w].pc = "idle"
           /\ \E f \in Seen(w) : WriterStep(w, Begun(f))

\* _increment(table=__read_table__(), item=item)
WriterBuild ==
    \E w \in Writers :
        LET Built(t) ==
                IF t.err # "" THEN Failed(writers[w], t.err)
                ELSE [writers[w] EXCEPT !.pc = "built", !.built = t.val, !.id = t.id,
                                        !.dumps = Dumps]
            Own(own) ==
                IF own.err # "" THEN Failed(writers[w], own.err)
                ELSE Built(_increment(own.val, writers[w].typed))
            Table_of(f) == Own(__read_table__(f, DefaultTable))
        IN /\ writers[w].pc = "read"
           /\ \E f \in Seen(w) : WriterStep(w, Table_of(f))

\* LemonStorage.write(item, table_name=table): data = self.read(False) and
\* table.update(item).
WriterMerge ==
    \E w \in Writers :
        LET Merged(r) ==
                IF r.err # "" THEN Failed(writers[w], r.err)
                ELSE [writers[w] EXCEPT
                         !.pc = "merged",
                         !.data = TableMerged(r.val, writers[w].built, DefaultTable)]
            Into(f) == Merged(LemonStorage_read(f, FALSE))
        IN /\ writers[w].pc = "built"
           /\ \E f \in Seen(w) : WriterStep(w, Into(f))

\* JsonMiddleware.write(data): data = self.read(path); data.update(item).
WriterUpdate ==
    \E w \in Writers :
        LET Updated(r) ==
                IF r.err # "" THEN Failed(writers[w], r.err)
                ELSE [writers[w] EXCEPT !.pc = "updated",
                                        !.data = TopUpdate(r.val, writers[w].data)]
            Onto(f) == Updated(JsonMiddleware_read(f))
        IN /\ writers[w].pc = "merged"
           /\ \E f \in Seen(w) : WriterStep(w, Onto(f))

\* open(path, 'r+') and the dump, one write of the text; insert returns its
\* item.  The read an other insert is at may have begun before the write.
WriterDump ==
    \E w \in Writers :
        LET After(v, d) ==
                IF v = w THEN [writers[v] EXCEPT !.pc = "done", !.err = d.err,
                                                 !.order = Dumps + 1]
                ELSE IF writers[v].pc \in {"idle", "read", "built", "merged"}
                     THEN [writers[v] EXCEPT !.old = files[MainFile].text]
                ELSE writers[v]
            Done(d) ==
                /\ files' = [files EXCEPT ![MainFile] = d.val]
                /\ writers' = [v \in Writers |-> After(v, d)]
                /\ nIns' = IF d.err = "" THEN nIns + 1 ELSE nIns
                /\ alloc' = IF d.err = ""
                            THEN [alloc EXCEPT ![DefaultTable] = Append(@, writers[w].id)]
                            ELSE alloc
                /\ call' = Call("insert", DefaultTable, DefaultTable,
                                DictObj(writers[w].item), NoQuery, FALSE, NoneObj,
                                Outcome(d.err, d.val, writers[w].id,
                                        IF d.err = "" THEN DictObj(writers[w].typed)
                                        ELSE NoneObj))
        IN /\ writers[w].pc = "updated"
           /\ Done(JsonMiddleware_dump(files[MainFile], writers[w].data, "r+"))
           /\ UNCHANGED <<handles, plugin, pre, cursors>>

Next ==
    \/ Insert
    \/ Update
    \/ DeleteLiteral
    \/ DeleteQuery
    \/ Search
    \/ FindOne
    \/ Tables
    \/ Items
    \/ Clear
    \/ Table
    \/ RunPlugin
    \/ Typenize
    \/ Untypenize
    \/ InsertRecord
    \/ InsertMany
    \/ Migrate
    \/ NewCursor
    \/ SameCursor
    \/ CursorWhere
    \/ CursorClone
    \/ CursorClose
    \/ CursorAdd
    \/ CursorAll
    \/ CursorLength
    \/ CursorIter
    \/ StorageWrite
    \/ WriterBegin
    \/ WriterBuild
    \/ WriterMerge
    \/ WriterUpdate
    \/ WriterDump

Spec == Init /\ [][Next]_vars

\* The calls that can change a file, with the calls of one kind: the files a
\* behaviour reaches are the same under each of these.
NextInsert == Insert \/ Clear \/ Table \/ RunPlugin
SpecInsert == Init /\ [][NextInsert]_vars

NextUpdate == Insert \/ Clear \/ Table \/ Update
SpecUpdate == Init /\ [][NextUpdate]_vars

NextDelete == Insert \/ Clear \/ Table \/ DeleteLiteral \/ DeleteQuery
SpecDelete == Init /\ [][NextDelete]_vars

NextRead == Insert \/ Clear \/ Table \/ Search \/ FindOne \/ Tables \/ Items
SpecRead == Init /\ [][NextRead]_vars

NextMany == Insert \/ Clear \/ Table \/ InsertMany \/ Migrate
SpecMany == Init /\ [][NextMany]_vars

\* Every call that writes the file.
NextMutate == Insert \/ Update \/ DeleteLiteral \/ DeleteQuery \/ Clear
SpecMutate == Init /\ [][NextMutate]_vars

\* The calls that change the file, with the storage's write called directly.
NextWrite == Insert \/ Clear \/ StorageWrite
SpecWrite == Init /\ [][NextWrite]_vars

\* Two inserts at the same time: any interleaving of their file accesses.
NextRace == WriterBegin \/ WriterBuild \/ WriterMerge \/ WriterUpdate \/ WriterDump
SpecRace == Init /\ [][NextRace]_vars

\* The calls on cursors.
NextCursor ==
    NewCursor \/ SameCursor \/ CursorWhere \/ CursorClone \/ CursorClose \/ CursorAdd
        \/ CursorAll \/ CursorLength \/ CursorIter
SpecCursor == Init /\ [][NextCursor]_vars

\* The cursor calls that make a cursor or change a list.  all(), length and
\* iteration leave every cursor as it is, so the cursors reached are the
\* cursors of SpecCursor.
NextWhere ==
    NewCursor \/ SameCursor \/ CursorWhere \/ CursorClone \/ CursorClose \/ CursorAdd
SpecWhere == Init /\ [][NextWhere]_vars

\* The codec on its own, and on the way into the file and back.
NextCodec == Typenize \/ Untypenize \/ InsertRecord \/ Items \/ Clear
SpecCodec == Init /\ [][NextCodec]_vars

\* ------------------------------------------------------- what the claims say
\* The rows of table name in file f (none when the table is absent).
HasTable(f, name) == TopIndex(f.data, name) # 0
TableRows(f, name) ==
    IF HasTable(f, name) THEN f.data[TopIndex(f.data, name)].rows ELSE <<>>

\* A file that holds a database: it exists and its text is one JSON document.
Readable(f) == f.exists /\ ~f.corrupt

\* A key that is an id: decimal digits.
IsDigits(s) == Len(s) > 0 /\ \A i \in 1..Len(s) : s[i] \in 48..57

\* A (field, value) pair is in both the query and the fields.
Intersects(query, fields) ==
    \E i \in 1..Len(query) : \E j \in 1..Len(fields) :
        query[i].k = fields[j].k /\ FieldsEq(<<query[i]>>, <<fields[j]>>)

\* The leaves of a record: its int values, at any depth.
RECURSIVE Leaves(_)
Leaves(fields) ==
    UNION {IF fields[i].v.isRec THEN Leaves(fields[i].v.f) ELSE {fields[i].v.n} :
           i \in 1..Len(fields)}

\* A record with these fields matches the query, as the query forms are
\* specified: a shared (field, value) pair; operator(record[field], operand);
\* a leaf whose string form matches the pattern; the predicate is true.
Matches(q, fields) ==
    CASE q.form = "none" -> TRUE
      [] q.form = "dict" -> Intersects(q.f, fields)
      [] q.form = "sq" ->
            \E i \in 1..Len(fields) :
                /\ fields[i].k = q.item
                /\ ~fields[i].v.isRec
                /\ ops(q.op, fields[i].v.n, q.key)
      [] q.form = "re" -> \E n \in Leaves(fields) : re_search(q.pat, str(n))
      [] q.form = "lambda" ->
            \/ q.pred = "true"
            \/ \E i \in 1..Len(fields) :
                   fields[i].k = "a" /\ ~fields[i].v.isRec /\ fields[i].v.n = 1
      [] OTHER -> FALSE

\* The places of the rows of a table that match the query.
MatchesIn(rows, q) == {j \in 1..Len(rows) : Matches(q, rows[j].e.f)}
FirstOf(places) == CHOOSE j \in places : \A k \in places : j <= k

\* The places (table, row) of the stored records whose fields equal lit's.
EqualTo(f, lit) ==
    {p \in UNION {{<<i, j>> : j \in 1..Len(f.data[i].rows)} : i \in 1..Len(f.data)} :
        FieldsEq(f.data[p[1]].rows[p[2]].e.f, lit.f)}

\* A query of one of the four forms (structural, comparative, pattern,
\* predicate), and one of the three that delete resolves by a search.
IsForm(q) == q.form \in {"dict", "sq", "re", "lambda"}
IsQuery(q) == q.form \in {"sq", "re", "lambda"}

\* The largest id of a table whose keys are all ids.
MaxId(rows) ==
    CHOOSE m \in {int(rows[j].k) : j \in 1..Len(rows)} :
        \A j \in 1..Len(rows) : int(rows[j].k) <= m

\* C1: the ids that successive inserts allocate for the default table, through
\* the default handle and as long as the file is not made anew, are strictly
\* increasing as integers, so that none is allocated twice.
C1_IdsStrictlyIncrease ==
    \A i, j \in 1..Len(alloc[DefaultTable]) :
        i < j => alloc[DefaultTable][i] < alloc[DefaultTable][j]

\* C2: an insert into a table that is in the file and whose keys are all ids
\* allocates 1 + the numerically largest id of the table, and 0 when the table
\* is empty.
C2_IdIsNumericMaxPlusOne ==
    (/\ call.op = "insert"
     /\ call.err = ""
     /\ Readable(pre)
     /\ HasTable(pre, call.table)
     /\ \A j \in 1..Len(TableRows(pre, call.table)) :
            IsDigits(TableRows(pre, call.table)[j].k))
    => call.id = IF Len(TableRows(pre, call.table)) = 0 THEN 0
                 ELSE 1 + MaxId(TableRows(pre, call.table))

\* C3: an insert that targets a table absent from the backing file (by the
\* table option, or through a handle of table(name)) succeeds with id 0, and
\* the table is then in the backing file with that one record and no other.
C3_InsertCreatesTable ==
    (/\ call.op = "insert"
     /\ Readable(pre)
     /\ ~HasTable(pre, call.table))
    => /\ call.err = ""
       /\ call.id = 0
       /\ HasTable(files[MainFile], call.table)
       /\ Len(TableRows(files[MainFile], call.table)) = 1
       /\ TableRows(files[MainFile], call.table)[1].k = str(0)
       /\ FieldsEq(TableRows(files[MainFile], call.table)[1].e.f, call.arg.e.f)

\* C4: an update whose query matches no record of the handle's table raises
\* the not-found error (SearchQueryError) and leaves the backing file as it
\* was.
C4_UpdateNoMatchRaisesNotFound ==
    (/\ call.op = "update"
     /\ IsForm(call.q)
     /\ Readable(pre)
     /\ MatchesIn(TableRows(pre, call.h), call.q) = {})
    => /\ call.err = "SearchQueryError"
       /\ files[MainFile] = pre

\* C5: an update whose query matches a record of the handle's table returns,
\* and the file then differs from the file before in the first match only:
\* that record has the fields of the patch with the patch's values and its
\* other fields as before; every other row of every table, and the version
\* entry, are as before.
C5_UpdateMergesFirstMatch ==
    (/\ call.op = "update"
     /\ IsForm(call.q)
     /\ Readable(pre)
     /\ HasTable(pre, call.h)
     /\ MatchesIn(TableRows(pre, call.h), call.q) # {})
    => /\ call.err = ""
       /\ Readable(files[MainFile])
       /\ Len(files[MainFile].data) = Len(pre.data)
       /\ \A i \in 1..Len(pre.data) :
            /\ files[MainFile].data[i].name = pre.data[i].name
            /\ files[MainFile].data[i].list = pre.data[i].list
            /\ Len(files[MainFile].data[i].rows) = Len(pre.data[i].rows)
            /\ \A j \in 1..Len(pre.data[i].rows) :
                 /\ files[MainFile].data[i].rows[j].k = pre.data[i].rows[j].k
                 /\ FieldsEq(files[MainFile].data[i].rows[j].e.f,
                             IF /\ i = TopIndex(pre.data, call.h)
                                /\ j = FirstOf(MatchesIn(pre.data[i].rows, call.q))
                             THEN FieldsUpdate(pre.data[i].rows[j].e.f, call.arg.e.f)
                             ELSE pre.data[i].rows[j].e.f)

\* C6: delete(literal, all=True), where the literal has the fields of one or
\* more stored records (the form a search returns), leaves no stored record
\* with those fields.
C6_DeleteAllRemovesEveryEqual ==
    (/\ call.op = "delete"
     /\ call.arg.kind = "dict"
     /\ ~call.arg.e.typed
     /\ call.all
     /\ Readable(pre)
     /\ EqualTo(pre, call.arg.e) # {})
    => /\ Readable(files[MainFile])
       /\ EqualTo(files[MainFile], call.arg.e) = {}

\* C7: delete(literal, all=False) with k >= 1 stored records that have the
\* literal's fields leaves exactly k - 1 of them.
C7_DeleteFirstRemovesOne ==
    (/\ call.op = "delete"
     /\ call.arg.kind = "dict"
     /\ ~call.arg.e.typed
     /\ ~call.all
     /\ Readable(pre)
     /\ EqualTo(pre, call.arg.e) # {})
    => /\ Readable(files[MainFile])
       /\ Cardinality(EqualTo(files[MainFile], call.arg.e))
              = Cardinality(EqualTo(pre, call.arg.e)) - 1

\* C8: delete(query) with a comparative, pattern or predicate query that
\* matches records of the handle's table removes them: with all=True no record
\* the query matches is left in the table, with all=False the first match is
\* gone and the other rows are left.
C8_DeleteQueryRemovesMatches ==
    (/\ call.op = "delete"
     /\ call.arg.kind = "none"
     /\ IsQuery(call.q)
     /\ Readable(pre)
     /\ MatchesIn(TableRows(pre, call.h), call.q) # {})
    => /\ Readable(files[MainFile])
       /\ call.all => MatchesIn(TableRows(files[MainFile], call.h), call.q) = {}
       /\ ~call.all =>
             Keys(TableRows(files[MainFile], call.h))
                 = [j \in 1..(Len(TableRows(pre, call.h)) - 1) |->
                      IF j < FirstOf(MatchesIn(TableRows(pre, call.h), call.q))
                      THEN TableRows(pre, call.h)[j].k
                      ELSE TableRows(pre, call.h)[j + 1].k]

\* C9: a delete whose literal has the fields of no stored record, or whose
\* query matches no record of the handle's table, returns without an error and
\* leaves the database as it was.
C9_DeleteNoMatchIsNoOp ==
    (/\ call.op = "delete"
     /\ Readable(pre)
     /\ \/ call.arg.kind = "dict" /\ EqualTo(pre, call.arg.e) = {}
        \/ /\ call.arg.kind = "none"
           /\ IsQuery(call.q)
           /\ HasTable(pre, call.h)
           /\ MatchesIn(TableRows(pre, call.h), call.q) = {})
    => /\ call.err = ""
       /\ files[MainFile].data = pre.data
       /\ Readable(files[MainFile])

\* The operations that read.
ReadOps == {"search", "find_one", "tables", "items"}

\* C10: search (find), find_one, tables and items leave every file as it is,
\* whether they return or raise; and a search that follows the same search
\* (same handle, query and rate) gives what the first gave.
C10_ReadsNeverWrite ==
    [][/\ call'.op \in ReadOps => files' = files
       /\ call'.again => call'.err = call.err /\ call'.ret = call.ret]_vars

\* C10 witness: the same search twice in a row on a table with records, both
\* returning a cursor that holds records.
C10_Witness ==
    /\ call.op = "search"
    /\ call.again
    /\ call.err = ""
    /\ call.ret.kind = "cursor"
    /\ Len(call.ret.items) > 0
    /\ Len(TableRows(files[MainFile], call.h)) > 0

\* The records of rows as a search returns them: decoded, in row order.
Decoded(rows) == [j \in 1..Len(rows) |-> DictObj(Plain(rows[j].e.f))]

\* The rows at the given places, in row order.
RECURSIVE RowsAt(_, _, _)
RowsAt(rows, places, j) ==
    IF j > Len(rows) THEN <<>>
    ELSE (IF j \in places THEN <<rows[j]>> ELSE <<>>) \o RowsAt(rows, places, j + 1)

\* The keys of rows are ids in increasing order.
IdOrder(rows) ==
    /\ \A j \in 1..Len(rows) : IsDigits(rows[j].k)
    /\ \A i, j \in 1..Len(rows) : i < j => int(rows[i].k) < int(rows[j].k)

\* C11: search() with no query and no rate returns a cursor that holds every
\* record of the handle's table and no other, decoded, in increasing id order.
C11_SearchAllReturnsTable ==
    (/\ call.op = "search"
     /\ call.q.form = "none"
     /\ call.rate = NoneObj
     /\ Readable(pre))
    => /\ call.err = ""
       /\ call.ret.kind = "cursor"
       /\ call.ret.items = Decoded(TableRows(pre, call.h))
       /\ IdOrder(TableRows(pre, call.h))

\* A backing file as plain inserts leave it: one JSON document in which the
\* table is present and every key of every table is an id.
WellFormed(f, name) ==
    /\ Readable(f)
    /\ HasTable(f, name)
    /\ \A i \in 1..Len(f.data) : \A j \in 1..Len(f.data[i].rows) :
           IsDigits(f.data[i].rows[j].k)

\* The result the claims give a search by query q and no rate: a cursor of
\* the matching records of the handle's table, whole and decoded, in id order.
AsSpecified(c, f) ==
    /\ c.err = ""
    /\ c.ret.kind = "cursor"
    /\ c.ret.items = Decoded(RowsAt(TableRows(f, c.h), MatchesIn(TableRows(f, c.h), c.q), 1))

\* C12: a structural query (a non-empty partial record) returns exactly the
\* records of the handle's table that share at least one (field, value) pair
\* with the query, in id order.
C12_StructuralSharesAPair ==
    (/\ call.op = "search"
     /\ call.q.form = "dict"
     /\ call.rate = NoneObj
     /\ WellFormed(pre, call.h))
    => AsSpecified(call, pre)

\* C13: a comparative query (field, operator, operand) returns exactly the
\* records of the handle's table for which operator(record[field], operand)
\* holds.
C13_ComparativeFilters ==
    (/\ call.op = "search"
     /\ call.q.form = "sq"
     /\ call.rate = NoneObj
     /\ WellFormed(pre, call.h))
    => AsSpecified(call, pre)

\* C14: a pattern query returns exactly the records of the handle's table
\* with a leaf, at any depth, whose string form the pattern matches, each as
\* the whole record.
C14_PatternMatchesLeaves ==
    (/\ call.op = "search"
     /\ call.q.form = "re"
     /\ call.rate = NoneObj
     /\ WellFormed(pre, call.h))
    => AsSpecified(call, pre)

\* C15: a predicate query returns exactly the records of the handle's table
\* of which the function is true; a record on which it raises is left out and
\* the search still returns.
C15_PredicateFilters ==
    (/\ call.op = "search"
     /\ call.q.form = "lambda"
     /\ call.rate = NoneObj
     /\ WellFormed(pre, call.h))
    => AsSpecified(call, pre)

\* The first min(r, Len(items)) of items.
FirstN(items, r) == SubSeq(items, 1, IF r < Len(items) THEN r ELSE Len(items))

\* The last call is a search or find_one with an int for rate whose query,
\* without a rate, gives a cursor of one or more items; u is that search
\* without a rate.
RatedCase(c, u) ==
    /\ c.op \in {"search", "find_one"}
    /\ c.rate.kind = "int"
    /\ u.err = ""
    /\ Len(u.val.items) > 0

\* C16: on a non-empty result, every integer rate r <= 1 (0 and the
\* negative ones too) yields the single first item and r > 1 the list of the
\* first min(r, n) items.
C16_RateBoundsEveryRate ==
    LET Bounded(u) ==
            RatedCase(call, u)
            => /\ call.err = ""
               /\ call.ret = IF call.rate.n <= 1 THEN u.val.items[1]
                             ELSE ListObj(FirstN(u.val.items, call.rate.n))
    IN Bounded(LemonDB_search(pre, call.h, call.q, NoneObj))

\* C17: a search or find_one by a query of one of the four forms that matches
\* no record of the handle's table, empty or not, returns an empty result (an
\* empty cursor, or the empty list when a rate is given) and does not raise.
C17_NoMatchReturnsEmpty ==
    (/\ call.op \in {"search", "find_one"}
     /\ IsForm(call.q)
     /\ WellFormed(pre, call.h)
     /\ MatchesIn(TableRows(pre, call.h), call.q) = {})
    => /\ call.err = ""
       /\ call.ret.kind \in {"cursor", "list"}
       /\ Len(call.ret.items) = 0

\* C18: a search or find_one whose query is not absent and is of none of the
\* four forms (a number, a list) raises the invalid-query error and returns
\* nothing.
C18_InvalidQueryRejected ==
    (/\ call.op \in {"search", "find_one"}
     /\ call.q.form = "other"
     /\ WellFormed(pre, call.h))
    => call.err # ""

\* A record of supported values only: ints and nested dicts, empty or not.
Supported(fields) == ~HasSet(fields)

\* C19: untypenize(typenize(r)) returns r for every record r of supported
\* values, nested and empty dicts at any place among the fields included; and
\* after an insert of such a record that returns, the items of the table can
\* be read and the last of them is the record inserted.
C19_CodecRoundTrips ==
    /\ (call.op = "untypenize" /\ Supported(call.arg.e.f))
       => /\ call.err = ""
          /\ call.ret = DictObj(Plain(call.arg.e.f))
    /\ (call.op = "insert" /\ call.err = "" /\ Supported(call.arg.e.f))
       => LET ReadBack(r) ==
                  /\ r.err = ""
                  /\ Len(r.val) > 0
                  /\ FieldsEq(r.val[Len(r.val)].f, call.arg.e.f)
          IN ReadBack(LemonDB_items_item(files[MainFile], call.h))

\* C20: typenize of a record with a value whose type has no tag and that is no
\* dict raises the unsupported-type error, and an insert of such a record
\* raises and leaves the backing file as it was.
C20_UnsupportedTypeRejected ==
    /\ (call.op = "typenize" /\ ~Supported(call.arg.e.f)) => call.err # ""
    /\ (call.op = "insert" /\ ~Supported(call.arg.e.f))
       => /\ call.err # ""
          /\ files[MainFile] = pre

\* C21: the "__version__" entry is never taken for a table: a delete by a
\* literal on a well-formed database, which carries the entry, does not fail
\* in iterating the entry's value as records (AttributeError: the list has no
\* items()).
C21_VersionIsNoTable ==
    (/\ call.op = "delete"
     /\ call.arg.kind = "dict"
     /\ WellFormed(pre, call.h))
    => call.err # "AttributeError"

\* C22: after a clear() through the default handle that returns, whatever
\* calls came before it, the backing file is one JSON document that holds the
\* version entry and the empty default table and nothing else.
C22_ClearLeavesEmptyDefault ==
    (/\ call.op = "clear"
     /\ call.h = DefaultTable
     /\ call.err = "")
    => /\ Readable(files[MainFile])
       /\ files[MainFile].data = <<VersionEntry, TableEntry(DefaultTable, <<>>)>>

\* C23: an insert_many that returns has stored every record of the sequence,
\* in order: the handle's table has the rows it had and, after them, one row
\* for each record, under consecutive ids that follow the largest id of the
\* table (from 0 in an empty table); and it returns the sequence.
C23_InsertManyStoresAll ==
    (/\ call.op = "insert_many"
     /\ call.err = ""
     /\ WellFormed(pre, call.h))
    => LET Stored_in(old, new, given) ==
               /\ Len(new) = Len(old) + Len(given)
               /\ \A j \in 1..Len(old) : new[j] = old[j]
               /\ \A i \in 1..Len(given) :
                    /\ FieldsEq(new[Len(old) + i].e.f, given[i].e.f)
                    /\ new[Len(old) + i].k
                           = str((IF Len(old) = 0 THEN 0 ELSE 1 + MaxId(old)) + i - 1)
       IN /\ Readable(files[MainFile])
          /\ Stored_in(TableRows(pre, call.h), TableRows(files[MainFile], call.h),
                       call.arg.items)
          /\ Len(call.ret.items) = Len(call.arg.items)

\* C24: the value an insert returns is the record the caller passed, field
\* for field, with no field added (no "$type") and no value converted.
C24_InsertReturnsItsRecord ==
    (call.op = "insert" /\ call.err = "")
    => /\ call.ret.kind = "dict"
       /\ ~call.ret.e.typed
       /\ call.ret.e.f = call.arg.e.f

\* The elements of items the condition is true of, with their places.
Satisfying(items, condition) ==
    {i \in 1..Len(items) : ApplyPred(condition, items[i]) = "T"}

\* C25: close() never raises, on any cursor, and a cursor that was closed is
\* empty from then on and still usable: all(), length, iteration and where()
\* on it return empty results and do not raise.
C25_ClosedCursorStaysUsable ==
    /\ call.op = "cursor.close" => call.err = ""
    /\ \A i \in 1..Len(cursors) : cursors[i].closed => cursors[i].items = <<>>
    /\ (/\ call.op \in {"cursor.all", "cursor.length", "cursor.iter", "cursor.where",
                        "cursor.close"}
        /\ cursors[call.id].closed)
       => /\ call.err = ""
          /\ call.op \in {"cursor.all", "cursor.iter", "cursor.where"}
                => call.ret.items = <<>>
          /\ call.op = "cursor.length" => call.ret = IntObj(0)

\* C26: cursor.where(condition) makes a new cursor that holds exactly the
\* elements of the cursor the condition is true of, in the cursor's order,
\* and changes no cursor there was, whether the cursor was made of a list or
\* by an earlier where.
C26_WhereFilters ==
    [][call'.op = "cursor.where"
       => /\ call'.err = ""
          /\ Len(cursors') = Len(cursors) + 1
          /\ \A j \in 1..Len(cursors) : cursors'[j] = cursors[j]
          /\ LET old == cursors[call'.id].items
                 new == cursors'[Len(cursors')].items
                 cond == call'.q.pred
             IN /\ Len(new) = Cardinality(Satisfying(old, cond))
                /\ \E place \in [1..Len(new) -> Satisfying(old, cond)] :
                      /\ \A a, b \in 1..Len(new) : a < b => place[a] < place[b]
                      /\ \A a \in 1..Len(new) : new[a] = old[place[a]]
                /\ call'.ret = CursorObj(Objs(new))]_vars

\* A where on a cursor that an earlier where made, which keeps some of its
\* elements and drops others.
C26_Witness ==
    /\ call.op = "cursor.where"
    /\ call.err = ""
    /\ cursors[call.id].linq
    /\ Len(cursors[Len(cursors)].items) > 1
    /\ Len(cursors[Len(cursors)].items) < Len(cursors[call.id].items)

\* The root dicts d and e hold the same tables with the same rows.
SameDatabase(d, e) ==
    /\ \A i \in 1..Len(d) : \E j \in 1..Len(e) : d[i] = e[j]
    /\ \A j \in 1..Len(e) : \E i \in 1..Len(d) : d[i] = e[j]

\* C27: a write in merge mode ('r+') leaves the file holding the entries it
\* held with the entries given put over them, and a write in replace mode
\* ('w') leaves the file holding exactly the database given, so a table of
\* the file that the database given lacks is gone.
C27_WriteModes ==
    (/\ call.op = "storage.write" /\ call.err = "" /\ Readable(pre))
    => /\ Readable(files[MainFile])
       /\ call.arg.mode = "r+"
             => SameDatabase(files[MainFile].data, TopUpdate(pre.data, call.arg.items))
       /\ call.arg.mode = "w" => SameDatabase(files[MainFile].data, call.arg.items)

\* Every row of every table of file f is a row of the same table of file g,
\* under the same key and with the same content.
RowsKept(f, g) ==
    \A i \in 1..Len(f.data) : \A j \in 1..Len(f.data[i].rows) :
        \E k \in 1..Len(TableRows(g, f.data[i].name)) :
            TableRows(g, f.data[i].name)[k] = f.data[i].rows[j]

\* C28: an insert that returns adds one record and loses none: the table it
\* targets holds one row more than before, every row the file held is still
\* in its table under its id with its content, and every other table holds as
\* many rows as before.
C28_InsertAddsOneLosesNone ==
    (/\ call.op = "insert" /\ call.err = "" /\ Readable(pre))
    => /\ Readable(files[MainFile])
       /\ Len(TableRows(files[MainFile], call.table)) = Len(TableRows(pre, call.table)) + 1
       /\ RowsKept(pre, files[MainFile])
       /\ \A name \in TableNames \ {call.table} :
              Len(TableRows(files[MainFile], name)) = Len(TableRows(pre, name))

\* The manifest of a stored record matches its fields: one tag per field, a
\* list of tags for a nested dict and one tag for an int.
ManifestMatches(e) ==
    /\ e.typed
    /\ Len(e.t) = Len(e.f)
    /\ \A i \in 1..Len(e.f) : e.t[i].nested = e.f[i].v.isRec /\ ~e.f[i].v.isSet

\* C29: whatever inserts (with the table option or without), updates, deletes
\* and clears were called, and whether they returned or raised, the backing
\* file is one JSON document that read() decodes in full: every key of every
\* table is an id, and every record carries a manifest that matches its fields.
C29_FileStaysDecodable ==
    /\ Readable(files[MainFile])
    /\ LemonStorage_read(files[MainFile], TRUE).err = ""
    /\ \A i \in 1..Len(files[MainFile].data) :
           \A j \in 1..Len(files[MainFile].data[i].rows) :
               /\ IsDigits(files[MainFile].data[i].rows[j].k)
               /\ ManifestMatches(files[MainFile].data[i].rows[j].e)

\* Both inserts returned without an exception, and each had read the file and
\* built its table before the other one dumped.
Raced ==
    \A w \in Writers :
        writers[w].pc = "done" /\ writers[w].err = "" /\ writers[w].dumps = 0

\* C30: two inserts into one table whose reads and writes interleave both
\* return without an exception, and yet the file then holds one of the two
\* records only: both allocated the same id, the table has at most one row
\* more than before, and, where the file still is one JSON document, the row
\* under that id is the record of the insert that dumped last and the other
\* record is in no row.
C30_RacingInsertsKeepOne ==
    Raced
    => /\ \A v, w \in Writers : writers[v].id = writers[w].id
       /\ Len(TableRows(files[MainFile], DefaultTable))
              <= Len(TableRows(pre, DefaultTable)) + 1
       /\ \A w \in Writers :
              (Readable(files[MainFile]) /\ writers[w].order = Cardinality(Writers))
              => /\ \E j \in 1..Len(TableRows(files[MainFile], DefaultTable)) :
                        /\ TableRows(files[MainFile], DefaultTable)[j].k = str(writers[w].id)
                        /\ TableRows(files[MainFile], DefaultTable)[j].e = writers[w].typed
                 /\ \A v \in Writers \ {w} :
                        writers[v].typed # writers[w].typed
                        => \A j \in 1..Len(TableRows(files[MainFile], DefaultTable)) :
                               TableRows(files[MainFile], DefaultTable)[j].e # writers[v].typed

\* Two racing inserts of different records into an empty table have returned,
\* the file is one JSON document and the table holds one record.
C30_Witness ==
    /\ Raced
    /\ Readable(files[MainFile])
    /\ writers["w1"].item # writers["w2"].item
    /\ Len(TableRows(pre, DefaultTable)) = 0
    /\ Len(TableRows(files[MainFile], DefaultTable)) = 1

====
